---- MODULE Spec2Model ----
(***************************************************************************)
(* Model of the DineVerse session core:                                    *)
(*   - the relay (src/lib/socket-server.ts) and the bootstrap relay        *)
(*     (src/server.js): room store, table booking, order ledger;           *)
(*   - the client-side game database (src/lib/game-database.ts);           *)
(*   - the visitor phase machine (src/unnamed/part_007, imported by the    *)
(*     components as "@/lib/visitor-flow") and the two popups that call    *)
(*     the database (reception-menu.tsx, npc-character.tsx).               *)
(* Every handler is one action: it runs to completion before the next      *)
(* (single-threaded event loop).  Date.now() is the variable now, which    *)
(* may or may not advance between two handler runs.                        *)
(***************************************************************************)
EXTENDS Integers, Sequences, FiniteSets, TLC

VARIABLES
    now,        \* Date.now(), in clock readings
    proc,       \* the process the behaviour follows: the relay "ts" (socket-server.ts),
                \* the relay "js" (server.js), or the browser "client" (game database,
                \* flow controller, popups); the processes share no memory
    rooms,      \* const rooms = new Map() of the relay
    sockets,    \* the number of connections accepted so far (socket ids 1..sockets)
    ioRooms,    \* socket.io room membership (socket.join), per room id
    closed,     \* sockets whose disconnect handler has run (ids are never reused)
    emitted,    \* the events sent by the last relay handler run
    hist,       \* history of the run, read by the statements only: per room id, the
                \* order id last served in the room and whether a room of that id
                \* was deleted while it held a reservation and an order
    tables,     \* GameDatabase.tables
    menuItems,  \* GameDatabase.menuItems: the available count per item id
    orders,     \* GameDatabase.orders
    state,      \* VisitorFlowController.state
    vTables,    \* VisitorFlowController.tables (the client's copy)
    vOrders,    \* VisitorFlowController.orders
    timers,     \* pending setTimeout callbacks of the controller, per callback
    ret,        \* the last call on the client: [op, arg, val], val its return value
    chef,       \* ChefFlowController.state and cookingStartTime, with the showTutorial
                \* state of the ChefFlow component
    timing,     \* EventTimingController: session.completedEvents, the event last handed
                \* to onEventTrigger, and the setTimeout callbacks not yet run
    game        \* CookingGameController.state and cookingStartTime

relayVars == <<proc, rooms, sockets, ioRooms, closed, emitted, hist>>
dbVars == <<tables, menuItems, orders>>
visitorVars == <<state, vTables, vOrders, timers>>
standaloneVars == <<timing, game>>
clientVars == <<tables, menuItems, orders, state, vTables, vOrders, timers, ret, chef,
                timing, game>>
vars == <<now, proc, rooms, sockets, ioRooms, closed, emitted, hist,
          tables, menuItems, orders, state, vTables, vOrders, timers, ret, chef,
          timing, game>>

----------------------------------------------------------------------------
(* Bounds of the model *)

\* clock readings 0..MaxNow
MaxNow == 1
\* socket ids 1..NumConns; a socket id is used by one connection only
NumConns == 3
\* the connections of the specifications that run the table and order protocol
NumRelayConns == 2
\* orders a room's ledger may hold before the model stops accepting new ids
MaxOrders == 1
\* pending setTimeout callbacks of one kind
MaxTimers == 1
\* values of Math.random() 1..NumRandom
NumRandom == 1
\* the largest quantity of an order line
MaxQty == 3
\* the most lines of an order batch
MaxLines == 2
\* orders a chef completes before the model stops handing it new ones
MaxCompleted == 2
\* the largest estimatedTime of an order handed to the chef, in seconds
MaxEstimate == 1
\* setTimeout callbacks of the timing controller set and not yet run
MaxScheduled == 3

Conns == 1..NumConns
RelayConns == 1..NumRelayConns
RoomIds == {"A", "B"}
\* the room ids the messages of the single-room specifications carry
OneRoom == {"A"}
Roles == {"visitor", "chef"}
Statuses == {"pending", "cooking", "ready", "served"}

\* the empty Map
EmptyMap == [x \in {} |-> 0]

\* m.set(k, v)
MapSet(m, k, v) == [x \in (DOMAIN m) \cup {k} |-> IF x = k THEN v ELSE m[x]]

\* a delete that empties the Map
MapClear(m, k) == [x \in {} |-> m[x]]

\* m.delete(k)
MapDelete(m, k) == [x \in (DOMAIN m) \ {k} |-> m[x]]

----------------------------------------------------------------------------
(* src/lib/socket-server.ts *)

TableIds == 1..6

\* tablePositions[].capacity
TableCapacity(id) ==
    CASE id = 1 -> 4 [] id = 2 -> 4 [] id = 3 -> 2
      [] id = 4 -> 2 [] id = 5 -> 6 [] id = 6 -> 6

NoSocket == 0

\* the room literal of join-room, were a deleted room's tables and orders kept
\* under its id and handed to the next room of that id
NewRoomStale ==
    [players |-> EmptyMap, poses |-> EmptyMap,
     orders |-> IF hist.buried = {} THEN EmptyMap
                ELSE [o \in {[t |-> 0, c |-> 1]} |->
                        [dish |-> "", price |-> 0, tableId |-> 5,
                         status |-> "pending", estimatedTime |-> 0]],
     tables |-> [id \in 1..6 |->
                   [capacity |-> IF id <= 2 THEN 4 ELSE IF id <= 4 THEN 2 ELSE 6,
                    isOccupied |-> hist.buried # {} /\ id = 5, reservedBy |-> 0]]]

\* initializeRoomTables(room): the table Map of a new room
initializeRoomTables ==
    [id \in TableIds |->
        [capacity |-> TableCapacity(id), isOccupied |-> FALSE, reservedBy |-> NoSocket]]

\* playerData.position and rotation at join-room: the spawn point of the role
SpawnPose(role) == IF role = "chef" THEN "chef-spawn" ELSE "visitor-spawn"

\* the room literal of join-room (createdAt is written once and never read); players
\* holds the role and poses the position and rotation of each playerData
NewRoom ==
    [players |-> EmptyMap, poses |-> EmptyMap, orders |-> EmptyMap,
     tables |-> initializeRoomTables]

\* the property names an object literal inherits from Object.prototype: a lookup
\* literal[name] finds the inherited member for them, not undefined
ObjectPrototypeMembers ==
    {"constructor", "hasOwnProperty", "isPrototypeOf", "propertyIsEnumerable",
     "toLocaleString", "toString", "valueOf", "__proto__",
     "__defineGetter__", "__defineSetter__", "__lookupGetter__", "__lookupSetter__"}

\* Object.prototype[name]: a function, and for "__proto__" the prototype object; not a
\* number, and truthy
ProtoMember(name) == [member |-> name]

\* the number NaN
NaN == "NaN"

\* cookingTimes[dish] || 10: the inherited member for a dish named like one
getEstimatedCookingTime(dish) ==
    CASE dish = "Pasta Carbonara" -> 8
      [] dish = "Grilled Steak" -> 10
      [] dish = "Caesar Salad" -> 5
      [] dish = "Tomato Soup" -> 12
      [] dish = "Gourmet Burger" -> 15
      [] dish = "Margherita Pizza" -> 18
      [] dish \in ObjectPrototypeMembers -> ProtoMember(dish)
      [] OTHER -> 10

RECURSIVE SumPriceByQuantity(_)
\* a total that multiplies each line price by its quantity
SumPriceByQuantity(items) ==
    IF items = <<>> THEN 0
    ELSE Head(items).price * Head(items).quantity + SumPriceByQuantity(Tail(items))

RECURSIVE SumPrice(_)
\* items.reduce((sum, item) => sum + item.price, 0)
SumPrice(items) ==
    IF items = <<>> THEN 0 ELSE Head(items).price + SumPrice(Tail(items))

RECURSIVE SumCookingTimes(_)
\* the sum of getEstimatedCookingTime(item.dish) * item.quantity over lines whose
\* cooking times are all numbers
SumCookingTimes(items) ==
    IF items = <<>> THEN 0
    ELSE getEstimatedCookingTime(Head(items).dish) * Head(items).quantity
         + SumCookingTimes(Tail(items))

\* items.reduce((sum, item) => sum + getEstimatedCookingTime(item.dish) * item.quantity, 0):
\* the product of a function or an object and a number is NaN, and so is every sum with it
SumCookingTime(items) ==
    IF \E i \in 1..Len(items) : items[i].dish \in ObjectPrototypeMembers
    THEN NaN
    ELSE SumCookingTimes(items)

RECURSIVE Join(_)
\* parts.join(", "): one string, in which the parts are not kept apart
Join(parts) ==
    IF parts = <<>> THEN ""
    ELSE IF Len(parts) = 1 THEN Head(parts)
    ELSE Head(parts) \o ", " \o Join(Tail(parts))

\* the template `${quantity}x ${name}` of an order line
LineLabel(quantity, name) == ToString(quantity) \o "x " \o name

\* items.map(item => `${item.quantity}x ${item.dish}`).join(", "): the label
DishLabel(items) == Join([i \in 1..Len(items) |-> LineLabel(items[i].quantity, items[i].dish)])

\* the item lists a place-order message carries in the model
ItemBatches ==
    { <<[dish |-> "Grilled Steak", quantity |-> 2, price |-> 50],
        [dish |-> "Iced Tea", quantity |-> 1, price |-> 4]>> }

\* the table ids a place-order message carries in the model
OrderTableArgs == {1, 5}

\* the party sizes a book-table message carries in the model
TableSizeArgs == {6, 7}

\* `order_${Date.now()}_${socket.id}`
OrderId(t, c) == [t |-> t, c |-> c]
RelayOrderIds == {OrderId(t, c) : t \in 0..MaxNow, c \in RelayConns}
NoOrder == [t |-> -1, c |-> NoSocket]

\* one emitted event: the receiving socket, the event name, and the payload
\* fields the claims read (the others are left out)
Event(to, ev, oid, tableId, status) ==
    [to |-> to, ev |-> ev, oid |-> oid, tableId |-> tableId, status |-> status]

\* a connected socket: io.on("connection") has run for it, its disconnect handler has not
Live(c) == c <= sockets /\ c \notin closed

\* socket.to(roomId): every socket joined to the socket.io room but the sender
Others(c, r) == ioRooms[r] \ {c}

\* RoleExists with the comparison of roles lost
RoleExistsNever(room, role) == \E p \in DOMAIN room.players : room.players[p] # room.players[p]

\* RoleExists that sees chefs only
RoleExistsChefOnly(room, role) ==
    role = "chef" /\ \E p \in DOMAIN room.players : room.players[p] = role

\* Array.from(room.players.values()).some(p => p.role === role)
RoleExists(room, role) == \E p \in DOMAIN room.players : room.players[p] = role

\* Array.from(room.players.values()).find(p => p.role === role): the set of
\* matches (Map order decides among several; a room never holds several)
PlayersWithRole(room, role) == {p \in DOMAIN room.players : room.players[p] = role}

\* a room-joined reply that lists the room's stored orders too
RoomJoinedWithOrders(c, room) ==
    [to |-> c, ev |-> "room-joined", oid |-> NoOrder, tableId |-> 0, status |-> "",
     otherPlayers |-> MapDelete(room.players, c), orders |-> room.orders]

\* the room-joined reply: { roomId, playerData, otherPlayers }, otherPlayers the players
\* of the room but the sender
RoomJoined(c, room) ==
    [to |-> c, ev |-> "room-joined", oid |-> NoOrder, tableId |-> 0, status |-> "",
     otherPlayers |-> MapDelete(room.players, c)]

\* rooms.get(roomId), or the new room join-room stores
GetOrCreate(store, r, fresh) == IF r \in DOMAIN store THEN store[r] ELSE fresh

\* socket.on("join-room")
JoinRoom(c, r, role) ==
    /\ Live(c)
    /\ LET room == GetOrCreate(rooms, r, NewRoom)
       IN  IF Cardinality(DOMAIN room.players) >= 2
           THEN /\ rooms' = MapSet(rooms, r, room)
                /\ emitted' = {Event(c, "room-full", NoOrder, 0, "")}
                /\ UNCHANGED ioRooms
           ELSE IF RoleExists(room, role)
           THEN /\ rooms' = MapSet(rooms, r, room)
                /\ emitted' = {Event(c, "role-taken", NoOrder, 0, "")}
                /\ UNCHANGED ioRooms
           ELSE /\ rooms' = MapSet(rooms, r,
                               [room EXCEPT !.players = MapSet(room.players, c, role),
                                            !.poses = MapSet(room.poses, c, SpawnPose(role))])
                /\ ioRooms' = [ioRooms EXCEPT ![r] = @ \cup {c}]
                /\ emitted' = {RoomJoined(c, room)}
                              \cup {Event(x, "player-joined", NoOrder, 0, "") : x \in Others(c, r)}
    /\ UNCHANGED <<now, proc, sockets, closed, hist, clientVars>>

\* the smallest fitting table instead of the first
BestAvailable(tableMap, tableSize) ==
    LET fit == {id \in DOMAIN tableMap :
                  ~tableMap[id].isOccupied /\ tableMap[id].capacity >= tableSize}
    IN  IF fit = {} THEN 0
        ELSE CHOOSE id \in fit :
               \A other \in fit :
                  \/ tableMap[id].capacity < tableMap[other].capacity
                  \/ tableMap[id].capacity = tableMap[other].capacity /\ id <= other

\* socket.on("player-move"), pose the position and rotation of the message
PlayerMove(c, r, pose) ==
    /\ Live(c)
    /\ IF r \notin DOMAIN rooms THEN UNCHANGED rooms /\ emitted' = {}
       ELSE IF c \notin DOMAIN rooms[r].players THEN UNCHANGED rooms /\ emitted' = {}
       ELSE /\ rooms' = [rooms EXCEPT ![r].poses[c] = pose]
            /\ emitted' = {Event(x, "player-moved", NoOrder, 0, "") : x \in Others(c, r)}
    /\ UNCHANGED <<now, proc, sockets, ioRooms, closed, hist, clientVars>>

\* the name under which a relay-only message is sent on: "player-action" keeps its
\* name, "tutorial-completed" goes out as "chef-ready", "visitor-sat-down" as
\* "visitor-seated", "menu-requested" as "menu-request"
RelayedName(ev) ==
    CASE ev = "player-action" -> "player-action"
      [] ev = "tutorial-completed" -> "chef-ready"
      [] ev = "visitor-sat-down" -> "visitor-seated"
      [] ev = "menu-requested" -> "menu-request"

\* socket.on("player-action"), "tutorial-completed", "visitor-sat-down", "menu-requested":
\* socket.to(roomId).emit(RelayedName(ev), ...) and nothing else; the payload of
\* "visitor-seated" and "menu-request" carries the tableId of the message
RelayOnly(c, r, ev, tableId) ==
    /\ Live(c)
    /\ emitted' = {Event(x, RelayedName(ev), NoOrder,
                         IF ev \in {"visitor-sat-down", "menu-requested"} THEN tableId ELSE 0,
                         "") : x \in Others(c, r)}
    /\ UNCHANGED <<now, proc, rooms, sockets, ioRooms, closed, hist, clientVars>>

\* the rating-submitted event: { playerId, rating }
RatingSubmitted(to, rating) ==
    [to |-> to, ev |-> "rating-submitted", oid |-> NoOrder, tableId |-> 0, status |-> "",
     rating |-> rating]

\* socket.on("submit-rating")
SubmitRating(c, r, rating) ==
    /\ Live(c)
    /\ emitted' = IF r \in DOMAIN rooms /\ c \in DOMAIN rooms[r].players
                     /\ rooms[r].players[c] = "visitor"
                  THEN {RatingSubmitted(x, rating) : x \in Others(c, r)}
                  ELSE {}
    /\ UNCHANGED <<now, proc, rooms, sockets, ioRooms, closed, hist, clientVars>>

\* the first table that is large enough, free or not
FirstLargeEnough(tableMap, tableSize) ==
    LET fit == {id \in DOMAIN tableMap : tableMap[id].capacity >= tableSize}
    IN  IF fit = {} THEN 0 ELSE CHOOSE id \in fit : \A other \in fit : id <= other

\* the first table of room.tables.values() with !isOccupied && capacity >= tableSize (0: none)
FirstAvailable(tableMap, tableSize) ==
    LET fit == {id \in DOMAIN tableMap :
                  ~tableMap[id].isOccupied /\ tableMap[id].capacity >= tableSize}
    IN  IF fit = {} THEN 0 ELSE CHOOSE id \in fit : \A other \in fit : id <= other

\* socket.on("book-table")
BookTable(c, r, tableSize) ==
    /\ Live(c)
    /\ IF r \notin DOMAIN rooms THEN UNCHANGED rooms /\ emitted' = {}
       ELSE IF c \notin DOMAIN rooms[r].players \/ rooms[r].players[c] # "visitor"
       THEN UNCHANGED rooms /\ emitted' = {}
       ELSE LET id == FirstAvailable(rooms[r].tables, tableSize)
            IN  IF id # 0
                THEN /\ rooms' = [rooms EXCEPT ![r].tables[id] =
                                    [@ EXCEPT !.isOccupied = TRUE, !.reservedBy = c]]
                     /\ emitted' = {Event(c, "table-assigned", NoOrder, id, "")}
                                   \cup {Event(x, "table-booked", NoOrder, id, "") : x \in Others(c, r)}
                ELSE /\ UNCHANGED rooms
                     /\ emitted' = {Event(c, "table-unavailable", NoOrder, 0, "")}
    /\ UNCHANGED <<now, proc, sockets, ioRooms, closed, hist, clientVars>>

\* the OrderData literal of place-order (orderTime is written once and never read)
NewOrder(items, tableId) ==
    [dish |-> DishLabel(items), price |-> SumPrice(items), tableId |-> tableId,
     status |-> "pending", estimatedTime |-> SumCookingTime(items)]

\* socket.on("place-order")
PlaceOrder(c, r, items, tableId) ==
    /\ Live(c)
    /\ IF r \notin DOMAIN rooms THEN UNCHANGED rooms /\ emitted' = {}
       ELSE IF c \notin DOMAIN rooms[r].players \/ rooms[r].players[c] # "visitor"
       THEN UNCHANGED rooms /\ emitted' = {}
       ELSE LET orderId == OrderId(now, c)
            IN  /\ orderId \in DOMAIN rooms[r].orders
                   \/ Cardinality(DOMAIN rooms[r].orders) < MaxOrders
                /\ rooms' = [rooms EXCEPT ![r].orders = MapSet(@, orderId, NewOrder(items, tableId))]
                /\ emitted' = {Event(k, "order-received", orderId, tableId, "")
                                 : k \in PlayersWithRole(rooms[r], "chef") \ {c}}
                              \cup {Event(c, "order-placed", orderId, 0, "")}
    /\ UNCHANGED <<now, proc, sockets, ioRooms, closed, hist, clientVars>>

\* socket.on("order-status-update")
OrderStatusUpdate(c, r, orderId, status) ==
    /\ Live(c)
    /\ IF r \notin DOMAIN rooms THEN UNCHANGED <<rooms, hist>> /\ emitted' = {}
       ELSE IF orderId \notin DOMAIN rooms[r].orders
       THEN UNCHANGED <<rooms, hist>> /\ emitted' = {}
       ELSE /\ rooms' = [rooms EXCEPT ![r].orders =
                           IF status = "served" THEN MapDelete(@, orderId)
                           ELSE [@ EXCEPT ![orderId].status = status]]
            /\ emitted' = {Event(v, "order-status-changed", orderId, 0, status)
                             : v \in PlayersWithRole(rooms[r], "visitor") \ {c}}
            /\ hist' = IF status = "served"
                       THEN [hist EXCEPT !.lastServed[r] = orderId] ELSE hist
    /\ UNCHANGED <<now, proc, sockets, ioRooms, closed, clientVars>>

\* socket.on("order-completed")
OrderCompleted(c, r, orderId) ==
    /\ Live(c)
    /\ IF r \notin DOMAIN rooms THEN UNCHANGED rooms /\ emitted' = {}
       ELSE IF orderId \notin DOMAIN rooms[r].orders
       THEN UNCHANGED rooms /\ emitted' = {}
       ELSE /\ rooms' = [rooms EXCEPT ![r].orders[orderId].status = "ready"]
            /\ emitted' = {Event(v, "order-ready", orderId, 0, "")
                             : v \in PlayersWithRole(rooms[r], "visitor") \ {c}}
    /\ UNCHANGED <<now, proc, sockets, ioRooms, closed, hist, clientVars>>

\* the history after the rooms of the store become rooms of after
Bury(after) ==
    LET gone == (DOMAIN rooms) \ (DOMAIN after)
        dirty(r) == /\ \E id \in TableIds : rooms[r].tables[id].isOccupied
                    /\ rooms[r].orders # EmptyMap
    IN  [lastServed |-> [r \in RoomIds |-> IF r \in gone THEN NoOrder ELSE hist.lastServed[r]],
         buried |-> {r \in RoomIds : IF r \in gone THEN dirty(r) ELSE r \in hist.buried}]

\* a session-ended event whose gameStats lists no order
SessionEndedNoOrders(to, room) ==
    [to |-> to, ev |-> "session-ended", oid |-> NoOrder, tableId |-> 0, status |-> "",
     players |-> room.players, orders |-> EmptyMap]

\* the session-ended event with its gameStats: Array.from(room.players.values()) and
\* Array.from(room.orders.values()), kept as the Maps they are made from
SessionEnded(to, room) ==
    [to |-> to, ev |-> "session-ended", oid |-> NoOrder, tableId |-> 0, status |-> "",
     players |-> room.players, orders |-> room.orders]

\* socket.on("end-session")
EndSession(c, r) ==
    /\ Live(c)
    /\ IF r \in DOMAIN rooms
       THEN /\ emitted' = {SessionEnded(x, rooms[r]) : x \in Others(c, r) \cup {c}}
            /\ rooms' = MapDelete(rooms, r)
            /\ hist' = Bury(MapDelete(rooms, r))
       ELSE UNCHANGED <<rooms, hist>> /\ emitted' = {}
    /\ UNCHANGED <<now, proc, sockets, ioRooms, closed, clientVars>>

\* the rooms Map after the forEach of the disconnect handler
AfterDisconnect(store, c) ==
    LET left(r) == [store[r] EXCEPT !.players = MapDelete(@, c), !.poses = MapDelete(@, c)]
        kept == {r \in DOMAIN store :
                   c \notin DOMAIN store[r].players \/ DOMAIN left(r).players # {}}
    IN  [r \in kept |-> IF c \in DOMAIN store[r].players THEN left(r) ELSE store[r]]

\* the player-left events of the disconnect handler
PlayerLeft(c) ==
    {Event(x, "player-left", NoOrder, 0, "")
       : x \in UNION {Others(c, r) : r \in {q \in DOMAIN rooms : c \in DOMAIN rooms[q].players}}}

\* socket.on("disconnect")
Disconnect(c) ==
    /\ Live(c)
    /\ closed' = closed \cup {c}
    /\ rooms' = AfterDisconnect(rooms, c)
    /\ ioRooms' = [r \in RoomIds |-> ioRooms[r] \ {c}]
    /\ emitted' = PlayerLeft(c)
    /\ hist' = Bury(AfterDisconnect(rooms, c))
    /\ UNCHANGED <<now, proc, sockets, clientVars>>

\* io.on("connection"): a new socket, with the next socket id
Connect(limit) ==
    /\ sockets < limit
    /\ sockets' = sockets + 1
    /\ emitted' = {}
    /\ UNCHANGED <<now, proc, rooms, ioRooms, closed, hist, clientVars>>

\* Date.now() advances between two handler runs
Tick ==
    /\ now < MaxNow
    /\ now' = now + 1
    /\ UNCHANGED <<relayVars, clientVars>>

----------------------------------------------------------------------------
(* src/server.js: the relay of the process bootstrap (rooms hold players only) *)

\* the room literal of join-room (createdAt is written once and never read)
JsNewRoom == [players |-> EmptyMap, poses |-> EmptyMap]

\* socket.on("join-room")
JsJoinRoom(c, r, role) ==
    /\ Live(c)
    /\ LET room == GetOrCreate(rooms, r, JsNewRoom)
       IN  IF Cardinality(DOMAIN room.players) >= 2
           THEN /\ rooms' = MapSet(rooms, r, room)
                /\ emitted' = {Event(c, "room-full", NoOrder, 0, "")}
                /\ UNCHANGED ioRooms
           ELSE IF RoleExists(room, role)
           THEN /\ rooms' = MapSet(rooms, r, room)
                /\ emitted' = {Event(c, "role-taken", NoOrder, 0, "")}
                /\ UNCHANGED ioRooms
           ELSE /\ rooms' = MapSet(rooms, r,
                               [room EXCEPT !.players = MapSet(room.players, c, role),
                                            !.poses = MapSet(room.poses, c, SpawnPose(role))])
                /\ ioRooms' = [ioRooms EXCEPT ![r] = @ \cup {c}]
                /\ emitted' = {RoomJoined(c, room)}
                              \cup {Event(x, "player-joined", NoOrder, 0, "") : x \in Others(c, r)}
    /\ UNCHANGED <<now, proc, sockets, closed, hist, clientVars>>

\* socket.on("disconnect")
JsDisconnect(c) ==
    /\ Live(c)
    /\ closed' = closed \cup {c}
    /\ rooms' = AfterDisconnect(rooms, c)
    /\ ioRooms' = [r \in RoomIds |-> ioRooms[r] \ {c}]
    /\ emitted' = PlayerLeft(c)
    /\ UNCHANGED <<now, proc, sockets, hist, clientVars>>

----------------------------------------------------------------------------
(* src/lib/game-database.ts: the singleton gameDatabase *)

NoParty == "null"

\* assignedChef: string | null, the null of the OrderData literal
NoChef == <<>>

\* assignedChef: string | null, the field holding a string
Assigned(text) == <<text>>

\* initializeTables(): the table Map after construction (the same 6 tables as the relay's)
initializeTables ==
    [id \in TableIds |->
        [capacity |-> TableCapacity(id), isOccupied |-> FALSE, reservedBy |-> NoParty,
         reservedAt |-> -1, currentOrder |-> NoOrder]]

MenuIds == {"burger", "pizza", "cold_coffee"}

\* MenuItem.name
MenuName(id) ==
    CASE id = "burger" -> "Burger" [] id = "pizza" -> "Pizza" [] id = "cold_coffee" -> "Cold Coffee"

\* MenuItem.cookingTime
MenuCookingTime(id) ==
    CASE id = "burger" -> 8 [] id = "pizza" -> 12 [] id = "cold_coffee" -> 3

\* MenuItem.price
MenuPrice(id) ==
    CASE id = "burger" -> 15 [] id = "pizza" -> 18 [] id = "cold_coffee" -> 8

\* initializeMenu(): MenuItem.available per item
initializeMenu ==
    [id \in MenuIds |-> CASE id = "burger" -> 5 [] id = "pizza" -> 5 [] id = "cold_coffee" -> 10]

\* Array.from(this.menuItems.values()).find(m => m.name === name): the ids found (none or one)
FindMenuItem(name) == {id \in MenuIds : MenuName(id) = name}

\* the record of a call and of what it returned
Ret(op, arg, val) == [op |-> op, arg |-> arg, val |-> val]

\* a boolean return value
Bool(b) == IF b THEN "true" ELSE "false"

\* findAvailableTable(requiredCapacity): the id of the table returned (0: null)
findAvailableTable(requiredCapacity) == FirstAvailable(tables, requiredCapacity)

\* gameDatabase.findAvailableTable(requiredCapacity), called
FindAvailableTable(requiredCapacity) ==
    /\ ret' = Ret("findAvailableTable", requiredCapacity, findAvailableTable(requiredCapacity))
    /\ UNCHANGED <<now, relayVars, standaloneVars, dbVars, visitorVars, chef>>

\* reserveTable without its test of isOccupied
CanReserveAnyTable(tableId) == tableId \in DOMAIN tables

\* reserveTable: table && !table.isOccupied
CanReserve(tableId) == tableId \in DOMAIN tables /\ ~tables[tableId].isOccupied

\* reserveTable without its assignment to table.reservedBy
ReservedByNobody(tableId, reservedBy) ==
    IF tableId \in DOMAIN tables /\ ~tables[tableId].isOccupied
    THEN [tables EXCEPT ![tableId] = [@ EXCEPT !.isOccupied = TRUE, !.reservedAt = now]]
    ELSE tables

\* reserveTable: the table Map after a call (this.tables is changed in place)
Reserved(tableId, reservedBy) ==
    IF CanReserve(tableId)
    THEN [tables EXCEPT ![tableId] =
            [@ EXCEPT !.isOccupied = TRUE, !.reservedBy = reservedBy, !.reservedAt = now]]
    ELSE tables

\* gameDatabase.reserveTable(tableId, reservedBy)
reserveTable(tableId, reservedBy) ==
    /\ tables' = Reserved(tableId, reservedBy)
    /\ ret' = Ret("reserveTable", <<tableId, reservedBy>>, Bool(CanReserve(tableId)))
    /\ UNCHANGED <<now, relayVars, standaloneVars, menuItems, orders, visitorVars, chef>>

\* gameDatabase.releaseTable(tableId)
releaseTable(tableId) ==
    /\ IF tableId \in DOMAIN tables /\ tables[tableId].isOccupied
       THEN /\ tables' = [tables EXCEPT ![tableId] =
                            [@ EXCEPT !.isOccupied = FALSE, !.reservedBy = NoParty,
                                      !.reservedAt = -1, !.currentOrder = NoOrder]]
            /\ ret' = Ret("releaseTable", tableId, "true")
       ELSE /\ UNCHANGED tables
            /\ ret' = Ret("releaseTable", tableId, "false")
    /\ UNCHANGED <<now, relayVars, standaloneVars, menuItems, orders, visitorVars, chef>>

\* checkAvailability(items): every line names a menu item with available >= quantity
checkAvailability(items) ==
    \A i \in 1..Len(items) :
        /\ FindMenuItem(items[i].name) # {}
        /\ \A id \in FindMenuItem(items[i].name) : ~(menuItems[id] < items[i].quantity)

RECURSIVE Decrement(_, _)
\* the second loop of updateInventory: menuItem.available -= item.quantity, line by line
Decrement(menu, items) ==
    IF items = <<>> THEN menu
    ELSE Decrement([id \in MenuIds |->
                       IF id \in FindMenuItem(Head(items).name)
                       THEN menu[id] - Head(items).quantity ELSE menu[id]],
                   Tail(items))

RECURSIVE DecrementWhileAvailable(_, _)
\* updateInventory, were each line checked and decremented in one loop
DecrementWhileAvailable(menu, items) ==
    IF items = <<>> THEN menu
    ELSE LET found == FindMenuItem(Head(items).name)
         IN  IF found = {} \/ \E id \in found : menu[id] < Head(items).quantity
             THEN menu
             ELSE DecrementWhileAvailable(
                      [id \in MenuIds |->
                          IF id \in found THEN menu[id] - Head(items).quantity ELSE menu[id]],
                      Tail(items))

\* the inventory after updateInventory, were there no check of the whole batch first
InventoryAfterPartial(items) == DecrementWhileAvailable(menuItems, items)

\* updateInventory(items): the inventory after the call
InventoryAfter(items) ==
    IF ~checkAvailability(items) THEN menuItems ELSE Decrement(menuItems, items)

\* gameDatabase.checkAvailability(items), called on its own
CheckAvailability(items) ==
    /\ ret' = Ret("checkAvailability", items, Bool(checkAvailability(items)))
    /\ UNCHANGED <<now, relayVars, standaloneVars, dbVars, visitorVars, chef>>

\* gameDatabase.updateInventory(items)
updateInventory(items) ==
    /\ menuItems' = InventoryAfter(items)
    /\ ret' = Ret("updateInventory", items, Bool(checkAvailability(items)))
    /\ UNCHANGED <<now, relayVars, standaloneVars, tables, orders, visitorVars, chef>>

\* `order_${Date.now()}_${Math.random().toString(36).substr(2, 9)}`: the suffix
\* has at most 9 characters, a socket id has 20, so the suffix is never a
\* socket id (socket ids are the positive numbers, the suffixes the negative)
DbOrderId(t, rnd) == [t |-> t, c |-> 0 - rnd]

RECURSIVE SumMenuCookingTime(_)
\* items.reduce((sum, item) => sum + (menuItem ? menuItem.cookingTime * item.quantity : 0), 0)
SumMenuCookingTime(items) ==
    IF items = <<>> THEN 0
    ELSE LET found == FindMenuItem(Head(items).name)
             id == CHOOSE x \in found : TRUE
         IN  (IF found = {} THEN 0 ELSE MenuCookingTime(id) * Head(items).quantity)
             + SumMenuCookingTime(Tail(items))

\* createOrder without its test of table.isOccupied
CanCreateOrderAnyTable(tableId) == tableId \in DOMAIN tables

\* createOrder: !(!table || table.isOccupied === false)
CanCreateOrder(tableId) == tableId \in DOMAIN tables /\ tables[tableId].isOccupied

\* the OrderData literal of createOrder (orderTime is written once and never read)
NewDbOrder(tableId, items) ==
    [tableId |-> tableId, items |-> items, totalPrice |-> SumPrice(items),
     status |-> "pending", estimatedTime |-> SumMenuCookingTime(items),
     assignedChef |-> NoChef]

\* createOrder: this.orders after the call
OrdersAfterCreate(tableId, items, rnd) ==
    IF CanCreateOrder(tableId)
    THEN MapSet(orders, DbOrderId(now, rnd), NewDbOrder(tableId, items))
    ELSE orders

\* createOrder: this.tables after the call
TablesAfterCreate(tableId, rnd) ==
    IF CanCreateOrder(tableId)
    THEN [tables EXCEPT ![tableId].currentOrder = DbOrderId(now, rnd)]
    ELSE tables

\* the bound of the model on the orders of the database
OrderRoom(rnd) == DbOrderId(now, rnd) \in DOMAIN orders \/ Cardinality(DOMAIN orders) < MaxOrders

\* gameDatabase.createOrder(tableId, items), rnd the value of Math.random()
createOrder(tableId, items, rnd) ==
    /\ CanCreateOrder(tableId) => OrderRoom(rnd)
    /\ orders' = OrdersAfterCreate(tableId, items, rnd)
    /\ tables' = TablesAfterCreate(tableId, rnd)
    /\ ret' = Ret("createOrder", <<tableId, items>>,
                  IF CanCreateOrder(tableId) THEN "order" ELSE "null")
    /\ UNCHANGED <<now, relayVars, standaloneVars, menuItems, visitorVars, chef>>

\* an argument that was not passed
NotPassed == <<>>

\* assignedChef?: string, an argument that was passed; any string can be passed
Passed(text) == <<text>>

\* if (assignedChef): the argument was passed and is not the empty string
Truthy(arg) == arg # NotPassed /\ arg[1] # ""

\* gameDatabase.updateOrderStatus(orderId, status, assignedChef?)
updateOrderStatus(orderId, status, assignedChef) ==
    /\ IF orderId \in DOMAIN orders
       THEN /\ orders' = [orders EXCEPT
                             ![orderId].status = status,
                             ![orderId].assignedChef =
                                 IF Truthy(assignedChef) THEN Assigned(assignedChef[1]) ELSE @]
            /\ ret' = Ret("updateOrderStatus", <<orderId, status, assignedChef>>, "true")
       ELSE /\ UNCHANGED orders
            /\ ret' = Ret("updateOrderStatus", <<orderId, status, assignedChef>>, "false")
    /\ UNCHANGED <<now, relayVars, standaloneVars, tables, menuItems, visitorVars, chef>>

\* gameDatabase.reset()
DbReset ==
    /\ tables' = initializeTables
    /\ orders' = EmptyMap
    /\ menuItems' = initializeMenu
    /\ ret' = Ret("reset", 0, "undefined")
    /\ UNCHANGED <<now, relayVars, standaloneVars, visitorVars, chef>>

----------------------------------------------------------------------------
(* src/unnamed/part_007: VisitorFlowController ("@/lib/visitor-flow") *)

Phases ==
    <<"entrance", "reception", "booking", "waiter_approaching", "walking_to_table",
      "at_table", "seated", "menu_requested", "ordering", "waiting", "served",
      "rating", "complete">>

NoSnapshot == [dish |-> "", price |-> -1]

\* the state literal of the class (and of reset); null is 0, "null" or NoSnapshot
VisitorInit ==
    [phase |-> "entrance", currentTable |-> 0, selectedTableSize |-> 0,
     currentOrder |-> NoSnapshot, rating |-> 0, isAtReception |-> FALSE,
     isSeated |-> FALSE, proximityToNPC |-> "null", waiterApproached |-> FALSE,
     menuRequested |-> FALSE]

\* what a controller method leaves alone besides the variables it names
VisitorFrame(op, arg) ==
    /\ ret' = Ret(op, arg, "undefined")
    /\ UNCHANGED <<now, relayVars, standaloneVars, chef>>

\* enterReception()
enterReception ==
    /\ state' = IF state.phase = "entrance"
                THEN [state EXCEPT !.phase = "reception", !.isAtReception = TRUE]
                ELSE state
    /\ VisitorFrame("enterReception", 0)
    /\ UNCHANGED <<dbVars, vTables, vOrders, timers>>

\* startBooking(tableSize)
startBooking(tableSize) ==
    /\ state' = IF state.phase = "reception"
                THEN [state EXCEPT !.phase = "booking", !.selectedTableSize = tableSize]
                ELSE state
    /\ VisitorFrame("startBooking", tableSize)
    /\ UNCHANGED <<dbVars, vTables, vOrders, timers>>

\* the bound of the model on pending timers
TimerRoom(kind) == timers[kind] < MaxTimers

\* assignTable(tableId)
assignTable(tableId) ==
    /\ CanReserve(tableId) => TimerRoom("waiterApproached")
    /\ tables' = Reserved(tableId, "visitor")
    /\ IF CanReserve(tableId)
       THEN /\ vTables' = IF tableId \in DOMAIN vTables
                          THEN [vTables EXCEPT ![tableId] =
                                  [isOccupied |-> TRUE, reservedBy |-> "visitor"]]
                          ELSE vTables
            /\ state' = [state EXCEPT !.currentTable = tableId,
                                      !.phase = "waiter_approaching",
                                      !.waiterApproached = TRUE]
            /\ timers' = [timers EXCEPT !.waiterApproached = @ + 1]
       ELSE UNCHANGED <<vTables, state, timers>>
    /\ VisitorFrame("assignTable", tableId)
    /\ UNCHANGED <<menuItems, orders, vOrders>>

\* waiterApproached()
waiterApproached ==
    /\ state' = IF state.phase = "waiter_approaching"
                THEN [state EXCEPT !.phase = "walking_to_table"]
                ELSE state
    /\ VisitorFrame("waiterApproached", 0)
    /\ UNCHANGED <<dbVars, vTables, vOrders, timers>>

\* the callback of the setTimeout of assignTable: this.waiterApproached()
WaiterApproachedTimer ==
    /\ timers.waiterApproached > 0
    /\ timers' = [timers EXCEPT !.waiterApproached = @ - 1]
    /\ state' = IF state.phase = "waiter_approaching"
                THEN [state EXCEPT !.phase = "walking_to_table"]
                ELSE state
    /\ VisitorFrame("waiterApproached", 1)
    /\ UNCHANGED <<dbVars, vTables, vOrders>>

\* the controller's table Map with the capacities initializeTables copied from the database
VisitorTableMap ==
    [id \in DOMAIN vTables |->
        [capacity |-> initializeTables[id].capacity, isOccupied |-> vTables[id].isOccupied]]

\* visitorController.findAvailableTable(tableSize), called (0: null)
VisitorFindAvailableTable(tableSize) ==
    /\ ret' = Ret("visitor.findAvailableTable", tableSize,
                  FirstAvailable(VisitorTableMap, tableSize))
    /\ UNCHANGED <<now, relayVars, standaloneVars, dbVars, visitorVars, chef>>

\* reachedTable()
reachedTable ==
    /\ state' = IF state.phase = "walking_to_table"
                THEN [state EXCEPT !.phase = "at_table"]
                ELSE state
    /\ VisitorFrame("reachedTable", 0)
    /\ UNCHANGED <<dbVars, vTables, vOrders, timers>>

\* sitDown()
sitDown ==
    /\ state' = IF state.phase = "at_table"
                THEN [state EXCEPT !.phase = "seated", !.isSeated = TRUE]
                ELSE state
    /\ VisitorFrame("sitDown", 0)
    /\ UNCHANGED <<dbVars, vTables, vOrders, timers>>

\* requestMenu()
requestMenu ==
    /\ state.phase = "seated" => TimerRoom("menuShown")
    /\ IF state.phase = "seated"
       THEN /\ state' = [state EXCEPT !.phase = "menu_requested", !.menuRequested = TRUE]
            /\ timers' = [timers EXCEPT !.menuShown = @ + 1]
       ELSE UNCHANGED <<state, timers>>
    /\ VisitorFrame("requestMenu", 0)
    /\ UNCHANGED <<dbVars, vTables, vOrders>>

\* menuShown()
menuShown ==
    /\ state' = IF state.phase = "menu_requested"
                THEN [state EXCEPT !.phase = "ordering"]
                ELSE state
    /\ VisitorFrame("menuShown", 0)
    /\ UNCHANGED <<dbVars, vTables, vOrders, timers>>

\* the callback of the setTimeout of requestMenu: this.menuShown()
MenuShownTimer ==
    /\ timers.menuShown > 0
    /\ timers' = [timers EXCEPT !.menuShown = @ - 1]
    /\ state' = IF state.phase = "menu_requested"
                THEN [state EXCEPT !.phase = "ordering"]
                ELSE state
    /\ VisitorFrame("menuShown", 1)
    /\ UNCHANGED <<dbVars, vTables, vOrders>>

\* seatAtTable()
seatAtTable ==
    /\ state' = IF state.phase = "walking_to_table"
                THEN [state EXCEPT !.phase = "seated", !.isSeated = TRUE]
                ELSE state
    /\ VisitorFrame("seatAtTable", 0)
    /\ UNCHANGED <<dbVars, vTables, vOrders, timers>>

\* startOrdering()
startOrdering ==
    /\ state' = IF state.phase = "seated"
                THEN [state EXCEPT !.phase = "ordering"]
                ELSE state
    /\ VisitorFrame("startOrdering", 0)
    /\ UNCHANGED <<dbVars, vTables, vOrders, timers>>

\* items.map(item => `${item.quantity}x ${item.name}`).join(", ")
NameLabel(items) == Join([i \in 1..Len(items) |-> LineLabel(items[i].quantity, items[i].name)])

\* placeOrder(items), rnd the value of Math.random() in createOrder
placeOrder(items, rnd) ==
    /\ IF state.phase = "ordering" /\ state.currentTable # 0
       THEN /\ CanCreateOrder(state.currentTable) => OrderRoom(rnd)
            /\ orders' = OrdersAfterCreate(state.currentTable, items, rnd)
            /\ tables' = TablesAfterCreate(state.currentTable, rnd)
            /\ IF CanCreateOrder(state.currentTable)
               THEN /\ vOrders' = MapSet(vOrders, DbOrderId(now, rnd),
                                     [dish |-> NameLabel(items), price |-> SumPrice(items),
                                      tableId |-> state.currentTable, status |-> "pending",
                                      estimatedTime |-> SumMenuCookingTime(items)])
                    /\ state' = [state EXCEPT
                                   !.currentOrder = [dish |-> NameLabel(items),
                                                     price |-> SumPrice(items)],
                                   !.phase = "waiting"]
               ELSE UNCHANGED <<vOrders, state>>
       ELSE UNCHANGED <<orders, tables, vOrders, state>>
    /\ VisitorFrame("placeOrder", items)
    /\ UNCHANGED <<menuItems, vTables, timers>>

\* updateOrderStatus(orderId, status) of the controller
VisitorUpdateOrderStatus(orderId, status) ==
    /\ IF orderId \in DOMAIN vOrders
       THEN /\ vOrders' = [vOrders EXCEPT ![orderId].status = status]
            /\ state' = IF /\ status = "served"
                           /\ state.currentOrder # NoSnapshot
                           /\ state.currentOrder.dish = vOrders[orderId].dish
                        THEN [state EXCEPT !.phase = "served"]
                        ELSE state
       ELSE UNCHANGED <<vOrders, state>>
    /\ VisitorFrame("updateOrderStatus", <<orderId, status>>)
    /\ UNCHANGED <<dbVars, vTables, timers>>

\* submitRating(rating)
submitRating(rating) ==
    /\ state' = IF state.phase = "served"
                THEN [state EXCEPT !.rating = rating, !.phase = "complete"]
                ELSE state
    /\ VisitorFrame("submitRating", rating)
    /\ UNCHANGED <<dbVars, vTables, vOrders, timers>>

\* reset() of the controller (pending timers are not cleared)
VisitorReset ==
    /\ state' = VisitorInit
    /\ vTables' = [id \in DOMAIN vTables |-> [isOccupied |-> FALSE, reservedBy |-> NoParty]]
    /\ vOrders' = EmptyMap
    /\ VisitorFrame("reset", 0)
    /\ UNCHANGED <<dbVars, timers>>

----------------------------------------------------------------------------
(* src/server.js (lines 138-329): ChefFlowController ("@/lib/chef-flow")    *)
(* Times are in milliseconds as in the code.  state.timeRemaining, a number *)
(* of seconds in the code, is kept in thousandths of a second, and           *)
(* state.cookingProgress as the fraction num/den, so that no value is        *)
(* rounded: den = 0 stands for the results of a division by 0 (num = 0: NaN, *)
(* num < 0: -Infinity).                                                      *)

\* currentOrder: null
NoChefOrder == [id |-> NoOrder, dish |-> "", estimatedTime |-> -1]

\* a number as a fraction
Frac(n, d) == [num |-> n, den |-> d]

\* the state literal of the class (and of reset), with cookingStartTime = 0; score is
\* a number while scoreText is empty, else the text String(score) followed by the
\* parts of scoreText
ChefInit ==
    [phase |-> "spawn", currentOrder |-> NoChefOrder, cookingProgress |-> Frac(0, 1),
     timeRemaining |-> 0, score |-> 0, scoreText |-> <<>>, completedOrders |-> 0,
     isInKitchen |-> FALSE,
     tutorialCompleted |-> FALSE, cookingStartTime |-> 0, showTutorial |-> FALSE]

\* what a method of the chef controller leaves alone
chefFrame == <<now, relayVars, standaloneVars, dbVars, visitorVars, ret>>

\* startTutorial()
startTutorial ==
    /\ chef' = IF chef.phase = "spawn" THEN [chef EXCEPT !.phase = "tutorial"] ELSE chef
    /\ UNCHANGED chefFrame

\* completeTutorial(): the controller after the call
AfterCompleteTutorial(ch) ==
    IF ch.phase = "tutorial"
    THEN [ch EXCEPT !.phase = "waiting_for_order", !.tutorialCompleted = TRUE]
    ELSE ch

\* completeTutorial()
completeTutorial ==
    /\ chef' = AfterCompleteTutorial(chef)
    /\ UNCHANGED chefFrame

\* enterKitchen()
enterKitchen ==
    /\ chef' = [chef EXCEPT !.isInKitchen = TRUE]
    /\ UNCHANGED chefFrame

\* exitKitchen()
exitKitchen ==
    /\ chef' = [chef EXCEPT !.isInKitchen = FALSE]
    /\ UNCHANGED chefFrame

\* the bound of the model on the orders a chef completes
ChefRoom == chef.completedOrders < MaxCompleted

\* receiveOrder that takes the order in the phase serving too
receiveOrderWhileServing(order) ==
    /\ chef.phase = "waiting_for_order" => ChefRoom
    /\ chef' = IF chef.phase \in {"waiting_for_order", "serving"}
               THEN [chef EXCEPT !.currentOrder = order, !.phase = "cooking",
                                 !.timeRemaining = 1000 * order.estimatedTime,
                                 !.cookingStartTime = now]
               ELSE chef
    /\ ret' = Ret("receiveOrder", order, "undefined")
    /\ UNCHANGED <<now, relayVars, standaloneVars, dbVars, visitorVars>>

\* receiveOrder(order); cookingStartTime = Date.now()
receiveOrder(order) ==
    /\ chef.phase = "waiting_for_order" => ChefRoom
    /\ chef' = IF chef.phase = "waiting_for_order"
               THEN [chef EXCEPT !.currentOrder = order, !.phase = "cooking",
                                 !.timeRemaining = 1000 * order.estimatedTime,
                                 !.cookingStartTime = now]
               ELSE chef
    /\ ret' = Ret("receiveOrder", order, "undefined")
    /\ UNCHANGED <<now, relayVars, standaloneVars, dbVars, visitorVars>>

\* startCooking()
startCooking ==
    /\ chef' = IF chef.phase = "cooking" /\ chef.currentOrder # NoChefOrder
               THEN [chef EXCEPT !.cookingStartTime = now, !.cookingProgress = Frac(0, 1)]
               ELSE chef
    /\ UNCHANGED chefFrame

\* getDishScore(dish): scores[dish] || 100, the inherited member for a dish named like one
getDishScore(dish) ==
    CASE dish = "Pasta Carbonara" -> 100
      [] dish = "Grilled Steak" -> 150
      [] dish = "Caesar Salad" -> 80
      [] dish = "Tomato Soup" -> 120
      [] dish = "Gourmet Burger" -> 200
      [] dish = "Margherita Pizza" -> 180
      [] dish \in ObjectPrototypeMembers -> ProtoMember(dish)
      [] OTHER -> 100

\* Math.min((elapsed / estimatedTime) * 100, 100), elapsed = elapsedMs / 1000:
\* the quotient is elapsedMs / (10 * estimatedTime), kept with a positive denominator;
\* a zero estimatedTime gives Infinity (then 100), NaN (0 / 0) or -Infinity, and a
\* negative one turns the quotient's sign, so that it reaches 100 only for a sample
\* that lies |estimatedTime| seconds or more before the cooking start
Progress(elapsedMs, estimatedTime) ==
    IF estimatedTime = 0
    THEN IF elapsedMs > 0 THEN Frac(100, 1) ELSE Frac(elapsedMs, 0)
    ELSE IF estimatedTime > 0
    THEN IF elapsedMs >= 1000 * estimatedTime THEN Frac(100, 1)
         ELSE Frac(elapsedMs, 10 * estimatedTime)
    ELSE IF elapsedMs <= 1000 * estimatedTime THEN Frac(100, 1)
         ELSE Frac(0 - elapsedMs, 0 - (10 * estimatedTime))

\* Math.max(estimatedTime - elapsed, 0), in thousandths
TimeRemaining(elapsedMs, estimatedTime) ==
    IF 1000 * estimatedTime - elapsedMs > 0 THEN 1000 * estimatedTime - elapsedMs ELSE 0

\* completeCooking: timeBonus = Math.max(0, estimatedTime - timeRemaining), in thousandths
TimeBonus(ch) ==
    IF 1000 * ch.currentOrder.estimatedTime - ch.timeRemaining > 0
    THEN 1000 * ch.currentOrder.estimatedTime - ch.timeRemaining ELSE 0

\* completeCooking: Math.floor(timeBonus * 10)
BonusPoints(ch) == TimeBonus(ch) \div 100

\* a piece of text: String(member) followed by String(num), the member "" being no text
TextPart(member, num) == [member |-> member, num |-> num]

\* completeCooking: baseScore + Math.floor(timeBonus * 10), a sum of two numbers, or,
\* baseScore being a function or an object, the text of it followed by the bonus
EarnedScore(ch) ==
    IF ch.currentOrder.dish \in ObjectPrototypeMembers
    THEN TextPart(ch.currentOrder.dish, BonusPoints(ch))
    ELSE getDishScore(ch.currentOrder.dish) + BonusPoints(ch)

\* this.state.score += earnedScore: the sum while both are numbers; else the text of
\* the score followed by the text of earnedScore (score stays the number the text
\* starts with and scoreText holds what follows it)
ScoreAdded(ch) ==
    IF ch.currentOrder.dish \in ObjectPrototypeMembers
    THEN [ch EXCEPT !.scoreText = Append(@, EarnedScore(ch))]
    ELSE IF ch.scoreText # <<>>
    THEN [ch EXCEPT !.scoreText = Append(@, TextPart("", EarnedScore(ch)))]
    ELSE [ch EXCEPT !.score = @ + EarnedScore(ch)]

\* a completion that leaves the phase at cooking
completeCookingKeepsCooking(ch) ==
    [ScoreAdded(ch) EXCEPT !.completedOrders = @ + 1]

\* completeCooking(), called with a current order
completeCooking(ch) ==
    [ScoreAdded(ch) EXCEPT !.completedOrders = @ + 1, !.phase = "serving"]

\* progress >= 100
IsComplete(progress) == progress.den > 0 /\ progress.num >= 100 * progress.den

\* updateCookingProgress(currentTime)
updateCookingProgress(currentTime) ==
    /\ chef' =
          IF chef.phase = "cooking" /\ chef.currentOrder # NoChefOrder
          THEN LET elapsedMs == currentTime - chef.cookingStartTime
                   sampled == [chef EXCEPT
                                 !.cookingProgress =
                                     Progress(elapsedMs, chef.currentOrder.estimatedTime),
                                 !.timeRemaining =
                                     TimeRemaining(elapsedMs, chef.currentOrder.estimatedTime)]
               IN  IF IsComplete(sampled.cookingProgress) THEN completeCooking(sampled)
                   ELSE sampled
          ELSE chef
    /\ UNCHANGED chefFrame

\* serveOrder()
serveOrder ==
    /\ chef' = IF chef.phase = "serving"
               THEN [chef EXCEPT !.currentOrder = NoChefOrder, !.cookingProgress = Frac(0, 1),
                                 !.timeRemaining = 0, !.phase = "waiting_for_order"]
               ELSE chef
    /\ UNCHANGED chefFrame

\* reset() of the chef controller
ChefReset ==
    /\ chef' = [ChefInit EXCEPT !.showTutorial = chef.showTutorial]
    /\ UNCHANGED chefFrame

----------------------------------------------------------------------------
(* src/components/game/chef-flow.tsx: the ChefFlow component *)

\* the kitchen proximity effect, isInKitchen the value of checkKitchenProximity(playerPosition)
KitchenProximity(isInKitchen) ==
    /\ chef' = IF isInKitchen /\ ~chef.isInKitchen
               THEN [chef EXCEPT !.isInKitchen = TRUE,
                                 !.showTutorial = @ \/ ~chef.tutorialCompleted]
               ELSE IF ~isInKitchen /\ chef.isInKitchen
               THEN [chef EXCEPT !.isInKitchen = FALSE]
               ELSE chef
    /\ UNCHANGED chefFrame

\* handleTutorialComplete, the button of the tutorial overlay
HandleTutorialComplete ==
    /\ chef.showTutorial
    /\ chef' = [AfterCompleteTutorial(chef) EXCEPT !.showTutorial = FALSE]
    /\ UNCHANGED chefFrame

\* the callback of the cooking progress interval: updateCookingProgress(Date.now())
CookingInterval ==
    /\ chef.phase = "cooking"
    /\ updateCookingProgress(now)

----------------------------------------------------------------------------
(* The popups that call the database *)

\* src/components/game/reception-menu.tsx: handleBookTable with selectedTableSize;
\* val is "booked" when onBookTable(selectedTableSize) is called, else the alert
HandleBookTable(selectedTableSize) ==
    /\ LET id == findAvailableTable(selectedTableSize)
       IN  IF selectedTableSize = 0
           THEN UNCHANGED tables /\ ret' = Ret("handleBookTable", selectedTableSize, "undefined")
           ELSE IF id = 0
           THEN UNCHANGED tables /\ ret' = Ret("handleBookTable", selectedTableSize, "alert-none")
           ELSE /\ tables' = Reserved(id, "visitor")
                /\ ret' = Ret("handleBookTable", selectedTableSize,
                              IF CanReserve(id) THEN "booked" ELSE "alert-taken")
    /\ UNCHANGED <<now, relayVars, standaloneVars, menuItems, orders, visitorVars, chef>>

\* handleOrder: Object.entries(selectedItems).filter(quantity > 0).map(...), the
\* lines in the order of the keys of selectedItems
OrderItems(selectedItems) ==
    SelectSeq([i \in 1..Len(selectedItems) |->
                 [name |-> selectedItems[i].name, quantity |-> selectedItems[i].quantity]],
              LAMBDA line : line.quantity > 0)

\* src/components/game/npc-character.tsx: FoodMenuPopup.handleOrder with the
\* selection selectedItems; val is "ordered" when onOrder(orderItems) is called
HandleOrder(selectedItems) ==
    /\ LET orderItems == OrderItems(selectedItems)
       IN  IF orderItems = <<>>
           THEN UNCHANGED menuItems /\ ret' = Ret("handleOrder", selectedItems, "undefined")
           ELSE IF ~checkAvailability(orderItems)
           THEN UNCHANGED menuItems /\ ret' = Ret("handleOrder", selectedItems, "alert-unavailable")
           ELSE /\ menuItems' = InventoryAfter(orderItems)
                /\ ret' = Ret("handleOrder", selectedItems, "ordered")
    /\ UNCHANGED <<now, relayVars, standaloneVars, tables, orders, visitorVars, chef>>

----------------------------------------------------------------------------
(* src/components/game/visitor-flow.tsx: the socket listeners of the visitor's browser *)

\* getSocket(): the connection of the browser whose controller the model follows
VisitorSocket == 1

\* handleTableAssigned(data): visitorController.assignTable(data.tableId)
HandleTableAssigned(e) ==
    /\ e.ev = "table-assigned"
    /\ assignTable(e.tableId)

\* handleOrderStatusChanged(data): visitorController.updateOrderStatus(data.orderId, data.status)
HandleOrderStatusChanged(e) ==
    /\ e.ev = "order-status-changed"
    /\ VisitorUpdateOrderStatus(e.oid, e.status)

----------------------------------------------------------------------------
(* src/lib/event-timing.ts: the EventTimingController *)

\* initializeEventTiming: the events in the order they are put into session.events
EventOrder ==
    <<"visitor_enters_reception", "receptionist_greeting", "table_booking_popup",
      "table_assigned", "waiter_follow_to_table", "visitor_seated", "menu_popup",
      "order_placed", "chef_receives_order", "cooking_starts", "cooking_progress_update",
      "order_ready", "waiter_serves_food", "rating_popup", "session_complete">>

\* the keys of session.events
EventIds == {EventOrder[i] : i \in 1..Len(EventOrder)}

\* initializeEventTiming: delay (ms), dependencies and autoTrigger of an event
EventTimings(id) ==
    CASE id = "visitor_enters_reception" -> [delay |-> 0, dependencies |-> {}, autoTrigger |-> TRUE]
      [] id = "receptionist_greeting" ->
            [delay |-> 0, dependencies |-> {"visitor_enters_reception"}, autoTrigger |-> TRUE]
      [] id = "table_booking_popup" ->
            [delay |-> 2000, dependencies |-> {"receptionist_greeting"}, autoTrigger |-> TRUE]
      [] id = "table_assigned" ->
            [delay |-> 0, dependencies |-> {"table_booking_popup"}, autoTrigger |-> FALSE]
      [] id = "waiter_follow_to_table" ->
            [delay |-> 5000, dependencies |-> {"table_assigned"}, autoTrigger |-> TRUE]
      [] id = "visitor_seated" ->
            [delay |-> 1000, dependencies |-> {"waiter_follow_to_table"}, autoTrigger |-> FALSE]
      [] id = "menu_popup" ->
            [delay |-> 1000, dependencies |-> {"visitor_seated"}, autoTrigger |-> TRUE]
      [] id = "order_placed" ->
            [delay |-> 0, dependencies |-> {"menu_popup"}, autoTrigger |-> FALSE]
      [] id = "chef_receives_order" ->
            [delay |-> 500, dependencies |-> {"order_placed"}, autoTrigger |-> TRUE]
      [] id = "cooking_starts" ->
            [delay |-> 0, dependencies |-> {"chef_receives_order"}, autoTrigger |-> FALSE]
      [] id = "cooking_progress_update" ->
            [delay |-> 1000, dependencies |-> {"cooking_starts"}, autoTrigger |-> TRUE]
      [] id = "order_ready" ->
            [delay |-> 0, dependencies |-> {"cooking_starts"}, autoTrigger |-> FALSE]
      [] id = "waiter_serves_food" ->
            [delay |-> 2000, dependencies |-> {"order_ready"}, autoTrigger |-> TRUE]
      [] id = "rating_popup" ->
            [delay |-> 2000, dependencies |-> {"waiter_serves_food"}, autoTrigger |-> TRUE]
      [] id = "session_complete" ->
            [delay |-> 0, dependencies |-> {"rating_popup"}, autoTrigger |-> FALSE]

\* the controller after construction. scheduled lists the setTimeout callbacks not yet run,
\* in the order they were set: the event each will trigger, the milliseconds left until it
\* runs, and whether its handle is the one the timers Map holds under the event's id
TimingInit == [completedEvents |-> {}, lastTriggered |-> "", scheduled |-> <<>>]

\* this.timers.delete(id), and what this.timers.set(id, timer) does to the handle the Map
\* held under id before: the callbacks stay set, their handles are in the Map no more
Unheld(scheduled, id) ==
    [i \in 1..Len(scheduled) |->
        IF scheduled[i].event = id THEN [scheduled[i] EXCEPT !.held = FALSE] ELSE scheduled[i]]

\* one run of the loop body of scheduleDependentEvents / scheduleAutoTriggeredEvents per
\* event of ids: setTimeout(..., event.delay) and this.timers.set(id, timer)
RECURSIVE SetTimers(_, _)
SetTimers(scheduled, ids) ==
    IF ids = <<>> THEN scheduled
    ELSE SetTimers(Append(Unheld(scheduled, Head(ids)),
                          [event |-> Head(ids), left |-> EventTimings(Head(ids)).delay,
                           held |-> TRUE]),
                   Tail(ids))

\* scheduleDependentEvents(eventId): the events it sets a timer for, in Map order
DependentEvents(t, eventId) ==
    SelectSeq(EventOrder, LAMBDA id : /\ eventId \in EventTimings(id).dependencies
                                      /\ id \notin t.completedEvents)

\* scheduleAutoTriggeredEvents(eventId): the events it sets a timer for, in Map order
AutoTriggeredEvents(t, eventId) ==
    SelectSeq(EventOrder, LAMBDA id : /\ eventId \in EventTimings(id).dependencies
                                      /\ EventTimings(id).autoTrigger
                                      /\ id \notin t.completedEvents)

\* triggerEvent(eventId): the controller after the call
AfterTriggerEvent(t, eventId) ==
    IF eventId \notin EventIds \/ eventId \in t.completedEvents THEN t
    ELSE LET done == [t EXCEPT !.completedEvents = @ \cup {eventId},
                               !.lastTriggered = eventId]
             dependent == [done EXCEPT !.scheduled =
                              SetTimers(@, DependentEvents(done, eventId))]
         IN  IF EventTimings(eventId).autoTrigger
             THEN [dependent EXCEPT !.scheduled =
                      SetTimers(@, AutoTriggeredEvents(dependent, eventId))]
             ELSE dependent

\* the bound of the model on callbacks set and not yet run
TimerSlots(t) == Len(t.scheduled) <= MaxScheduled

\* what a method of the timing controller leaves alone
timingFrame == <<now, relayVars, dbVars, visitorVars, chef, game>>

\* startSession()
startSession ==
    /\ timing' = AfterTriggerEvent([timing EXCEPT !.completedEvents = {}],
                                   "visitor_enters_reception")
    /\ TimerSlots(timing')
    /\ ret' = Ret("startSession", 0, "undefined")
    /\ UNCHANGED timingFrame

\* triggerEvent(eventId), called from outside
triggerEvent(eventId) ==
    /\ timing' = AfterTriggerEvent(timing, eventId)
    /\ TimerSlots(timing')
    /\ ret' = Ret("triggerEvent", eventId, "undefined")
    /\ UNCHANGED timingFrame

\* triggerManualEvent(eventId)
triggerManualEvent(eventId) ==
    /\ timing' = IF /\ eventId \in EventIds
                    /\ EventTimings(eventId).dependencies \subseteq timing.completedEvents
                 THEN AfterTriggerEvent(timing, eventId)
                 ELSE timing
    /\ TimerSlots(timing')
    /\ ret' = Ret("triggerManualEvent", eventId, "undefined")
    /\ UNCHANGED timingFrame

\* ms milliseconds pass and no callback runs. setTimeout promises only that a callback
\* does not run early: time also passes while a callback is due and has not run yet
\* (the event loop is busy), and that callback stays due. Every callback set has that
\* much less to wait, whichever call set it and when
TimePasses(ms) ==
    /\ timing' = [timing EXCEPT !.scheduled =
                     [i \in 1..Len(@) |->
                         [@[i] EXCEPT !.left = IF @ >= ms THEN @ - ms ELSE 0]]]
    /\ UNCHANGED <<timingFrame, ret>>

\* the callbacks that may run next: those that are due, on time or late. Of two due
\* callbacks set with the same delay the one set first runs first. The order of two due
\* callbacks set with different delays is the runtime's (it depends on how late each is
\* and on how the runtime keeps its timers), so either may run first
NextTimer(scheduled) ==
    {i \in 1..Len(scheduled) :
        /\ scheduled[i].left = 0
        /\ \A j \in 1..(i - 1) :
              scheduled[j].left = 0
              => EventTimings(scheduled[j].event).delay # EventTimings(scheduled[i].event).delay}

\* a setTimeout callback of the controller runs when it is due: this.triggerEvent(id),
\* then this.timers.delete(id)
TimerFires ==
    /\ \E i \in NextTimer(timing.scheduled) :
          LET due == timing.scheduled[i]
              others == [j \in 1..(Len(timing.scheduled) - 1) |->
                           timing.scheduled[IF j < i THEN j ELSE j + 1]]
              triggered == AfterTriggerEvent([timing EXCEPT !.scheduled = others], due.event)
          IN  timing' = [triggered EXCEPT !.scheduled = Unheld(@, due.event)]
    /\ TimerSlots(timing')
    /\ UNCHANGED <<timingFrame, ret>>

\* this.timers.forEach(timer => clearTimeout(timer)); this.timers.clear()
ClearTimers(scheduled) == SelectSeq(scheduled, LAMBDA s : ~s.held)

\* resetSession()
resetSession ==
    /\ timing' = [timing EXCEPT !.scheduled = ClearTimers(@), !.completedEvents = {}]
    /\ ret' = Ret("resetSession", 0, "undefined")
    /\ UNCHANGED timingFrame

\* destroy()
destroy ==
    /\ timing' = [timing EXCEPT !.scheduled = ClearTimers(@)]
    /\ ret' = Ret("destroy", 0, "undefined")
    /\ UNCHANGED timingFrame

----------------------------------------------------------------------------
(* src/unnamed/part_005: the standalone CookingGameController *)

\* RECIPES, the fields the controller reads
RECIPES ==
    <<[id |-> "pasta", ingredients |-> {"pasta", "eggs", "bacon", "cheese"},
       cookTime |-> 8, points |-> 100],
      [id |-> "steak", ingredients |-> {"beef", "salt", "pepper", "butter"},
       cookTime |-> 10, points |-> 150],
      [id |-> "salad", ingredients |-> {"lettuce", "croutons", "cheese", "dressing"},
       cookTime |-> 5, points |-> 80],
      [id |-> "soup", ingredients |-> {"tomato", "cream", "basil", "garlic"},
       cookTime |-> 12, points |-> 120],
      [id |-> "burger", ingredients |-> {"beef", "bun", "lettuce", "tomato", "cheese"},
       cookTime |-> 15, points |-> 200],
      [id |-> "pizza", ingredients |-> {"dough", "tomato", "cheese", "basil"},
       cookTime |-> 18, points |-> 180]>>

\* currentRecipe: null
NoRecipe == [id |-> "null", ingredients |-> {}, cookTime |-> 0, points |-> 0]

\* the state literal of the class (and of reset), with cookingStartTime = 0; scored is
\* history read by the statements only: the recipe at hand has been scored since
\* startNewOrder drew it
GameInit ==
    [currentRecipe |-> NoRecipe, selectedIngredients |-> <<>>, cookingProgress |-> Frac(0, 1),
     isActive |-> FALSE, score |-> 0, completedOrders |-> 0, timeRemaining |-> 0,
     cookingStartTime |-> 0, scored |-> FALSE]

\* what a method of the game controller leaves alone
gameFrame == <<now, relayVars, dbVars, visitorVars, chef, timing>>

\* startNewOrder(), index the value of Math.floor(Math.random() * RECIPES.length) + 1
startNewOrder(index) ==
    /\ game' = [game EXCEPT !.currentRecipe = RECIPES[index], !.selectedIngredients = <<>>,
                            !.cookingProgress = Frac(0, 1), !.isActive = FALSE,
                            !.timeRemaining = RECIPES[index].cookTime, !.scored = FALSE]
    /\ ret' = Ret("startNewOrder", index, "undefined")
    /\ UNCHANGED gameFrame

\* toggleIngredient(ingredient)
toggleIngredient(ingredient) ==
    /\ game' = IF game.isActive THEN game
               ELSE IF \E i \in 1..Len(game.selectedIngredients) :
                          game.selectedIngredients[i] = ingredient
               THEN [game EXCEPT !.selectedIngredients =
                        SelectSeq(@, LAMBDA x : x # ingredient)]
               ELSE [game EXCEPT !.selectedIngredients = Append(@, ingredient)]
    /\ ret' = Ret("toggleIngredient", ingredient, "undefined")
    /\ UNCHANGED gameFrame

\* startCooking: recipe.ingredients.every(ing => selectedIngredients.includes(ing))
HasAllIngredients(g) ==
    g.currentRecipe.ingredients \subseteq
        {g.selectedIngredients[i] : i \in 1..Len(g.selectedIngredients)}

\* the test of startCooking: a recipe, not cooking, and every ingredient selected
CanStartCooking(g) == g.currentRecipe # NoRecipe /\ ~g.isActive /\ HasAllIngredients(g)

\* startCooking(currentTime)
GameStartCooking(currentTime) ==
    /\ game' = IF CanStartCooking(game)
               THEN [game EXCEPT !.isActive = TRUE, !.cookingProgress = Frac(0, 1),
                                 !.cookingStartTime = currentTime]
               ELSE game
    /\ ret' = Ret("startCooking", currentTime, Bool(CanStartCooking(game)))
    /\ UNCHANGED gameFrame

\* Math.min((elapsed / recipe.cookTime) * 100, 100), cookTime > 0
GameProgress(elapsed, cookTime) ==
    IF elapsed >= cookTime THEN Frac(100, 1) ELSE Frac(100 * elapsed, cookTime)

\* the points from 0 to 1000 whose floating-point product with 0.7 lies just below the
\* whole number 7 * points / 10 (180 * 0.7 is 125.99999999999999)
RoundedBelow == {90, 170, 180} \cup {330 + 10 * k : k \in 0..3} \cup {650 + 10 * k : k \in 0..8}

\* Math.floor(points * 0.7) in the floating point of the language, points from 0 to 1000
FloorOfSeventyPercent(points) ==
    IF points \in RoundedBelow THEN ((points * 7) \div 10) - 1 ELSE (points * 7) \div 10

\* completeCooking: recipe.points, or Math.floor(points * 0.7) with extra ingredients
EarnedPoints(g) ==
    IF Len(g.selectedIngredients) > Cardinality(g.currentRecipe.ingredients)
    THEN FloorOfSeventyPercent(g.currentRecipe.points)
    ELSE g.currentRecipe.points

\* completeCooking(), called with a current recipe
GameCompleteCooking(g) ==
    [g EXCEPT !.score = @ + EarnedPoints(g), !.completedOrders = @ + 1,
              !.isActive = FALSE, !.cookingProgress = Frac(100, 1), !.scored = TRUE]

\* update(currentTime)
GameUpdate(currentTime) ==
    /\ game' =
          IF ~game.isActive \/ game.currentRecipe = NoRecipe THEN game
          ELSE LET elapsed == currentTime - game.cookingStartTime
                   cookTime == game.currentRecipe.cookTime
                   sampled == [game EXCEPT
                                 !.cookingProgress = GameProgress(elapsed, cookTime),
                                 !.timeRemaining =
                                     IF cookTime - elapsed > 0 THEN cookTime - elapsed ELSE 0]
               IN  IF IsComplete(sampled.cookingProgress) THEN GameCompleteCooking(sampled)
                   ELSE sampled
    /\ ret' = Ret("update", currentTime, "undefined")
    /\ UNCHANGED gameFrame

\* serveDish()
serveDish ==
    /\ game' = IF IsComplete(game.cookingProgress)
               THEN [game EXCEPT !.cookingProgress = Frac(0, 1)]
               ELSE game
    /\ ret' = Ret("serveDish", 0, "undefined")
    /\ UNCHANGED gameFrame

\* reset() of the game controller
GameReset ==
    /\ game' = [GameInit EXCEPT !.cookingStartTime = game.cookingStartTime]
    /\ ret' = Ret("reset", 0, "undefined")
    /\ UNCHANGED gameFrame

----------------------------------------------------------------------------
(* Specifications *)

Init ==
    /\ now = 0
    /\ proc \in {"ts", "js", "client"}
    /\ rooms = EmptyMap
    /\ sockets = 0
    /\ ioRooms = [r \in RoomIds |-> {}]
    /\ closed = {}
    /\ emitted = {}
    /\ hist = [lastServed |-> [r \in RoomIds |-> NoOrder], buried |-> {}]
    /\ tables = initializeTables
    /\ menuItems = initializeMenu
    /\ orders = EmptyMap
    /\ state = VisitorInit
    /\ vTables = [id \in TableIds |-> [isOccupied |-> FALSE, reservedBy |-> NoParty]]
    /\ vOrders = EmptyMap
    /\ timers = [waiterApproached |-> 0, menuShown |-> 0]
    /\ ret = Ret("none", 0, "undefined")
    /\ chef = ChefInit
    /\ timing = TimingInit
    /\ game = GameInit

\* the process runs the relay of socket-server.ts
InitTs == Init /\ proc = "ts"

\* the relay of socket-server.ts under every message of the table and order protocol
NextRelay ==
    \/ Tick
    \/ Connect(NumRelayConns)
    \/ \E c \in RelayConns, r \in OneRoom, role \in Roles : JoinRoom(c, r, role)
    \/ \E c \in RelayConns, r \in OneRoom, s \in TableSizeArgs : BookTable(c, r, s)
    \/ \E c \in RelayConns, r \in OneRoom, items \in ItemBatches, t \in OrderTableArgs :
          PlaceOrder(c, r, items, t)
    \/ \E c \in RelayConns, r \in OneRoom, o \in RelayOrderIds, s \in Statuses :
          OrderStatusUpdate(c, r, o, s)
    \/ \E c \in RelayConns, r \in OneRoom, o \in RelayOrderIds : OrderCompleted(c, r, o)
    \/ \E c \in RelayConns, r \in OneRoom : EndSession(c, r)
    \/ \E c \in RelayConns : Disconnect(c)

SpecRelay == InitTs /\ [][NextRelay]_vars

\* the life of a room of socket-server.ts: joins, bookings, orders, and the two
\* handlers that delete rooms (the handlers left out write order statuses only)
NextRoomLife ==
    \/ Connect(NumRelayConns)
    \/ \E c \in RelayConns, r \in OneRoom, role \in Roles : JoinRoom(c, r, role)
    \/ \E c \in RelayConns, r \in OneRoom, s \in TableSizeArgs : BookTable(c, r, s)
    \/ \E c \in RelayConns, r \in OneRoom, items \in ItemBatches, t \in OrderTableArgs :
          PlaceOrder(c, r, items, t)
    \/ \E c \in RelayConns, r \in OneRoom : EndSession(c, r)
    \/ \E c \in RelayConns : Disconnect(c)

SpecRoomLife == InitTs /\ [][NextRoomLife]_vars

\* either relay under join-room, disconnect and end-session messages (end-session
\* for room A)
NextJoin ==
    \/ Connect(NumConns)
    \/ \E c \in Conns, r \in RoomIds, role \in Roles :
          (proc = "ts" /\ JoinRoom(c, r, role)) \/ (proc = "js" /\ JsJoinRoom(c, r, role))
    \/ \E c \in Conns, r \in OneRoom : proc = "ts" /\ EndSession(c, r)
    \/ \E c \in Conns : (proc = "ts" /\ Disconnect(c)) \/ (proc = "js" /\ JsDisconnect(c))

\* the process runs one of the two relays
InitJoin == Init /\ proc \in {"ts", "js"}

SpecJoin == InitJoin /\ [][NextJoin]_vars

\* the process is the browser client
InitClient == Init /\ proc = "client"

\* the order batches of the inventory calls: up to MaxLines lines, each naming
\* the menu item "Burger" or the dish "Sushi", which is not on the menu
Lines ==
    {[name |-> "Burger", quantity |-> q] : q \in 1..MaxQty}
    \cup {[name |-> "Sushi", quantity |-> 1]}
LineBatches == UNION {[1..n -> Lines] : n \in 0..MaxLines}

\* the selections of the food menu popup: a quantity per menu item shown
\* (Pizza is left at 0)
Selections ==
    {<<[name |-> "Burger", quantity |-> q], [name |-> "Pizza", quantity |-> 0]>>
       : q \in 0..MaxQty}

\* the inventory of the game database under its callers
NextInventory ==
    \/ \E items \in LineBatches : CheckAvailability(items)
    \/ \E items \in LineBatches : updateInventory(items)
    \/ \E sel \in Selections : HandleOrder(sel)
    \/ DbReset

SpecInventory == InitClient /\ [][NextInventory]_vars

\* the arguments of the table and order calls of the model
TableArgs == {1, 5, 7}
Parties == {"visitor", "chef"}
DbItemBatches ==
    { <<[name |-> "Burger", quantity |-> 2, price |-> 30],
        [name |-> "Sushi", quantity |-> 1, price |-> 7]>> }
DbStatusArgs == {"cooking", "cancelled"}
\* the third argument of updateOrderStatus: not passed, the empty string, or the
\* id of a chef (here the id that spells the word undefined)
DbChefArgs == {NotPassed, Passed(""), Passed("undefined")}
DbOrderIds == {DbOrderId(t, rnd) : t \in 0..MaxNow, rnd \in 1..NumRandom}

\* the tables and orders of the game database under the calls of its public methods
NextDb ==
    \/ \E t \in TableArgs : reserveTable(t, "visitor")
    \/ \E t \in TableArgs : releaseTable(t)
    \/ \E t \in TableArgs, items \in DbItemBatches, rnd \in 1..NumRandom :
          createOrder(t, items, rnd)
    \/ \E o \in DbOrderIds, st \in DbStatusArgs, by \in DbChefArgs :
          updateOrderStatus(o, st, by)
    \/ DbReset

SpecDb == InitClient /\ [][NextDb]_vars

\* table reservation, on the relay of socket-server.ts or on the client: every
\* handler that writes a table store or decides who may book
NextReserve ==
    \/ proc = "ts" /\ Connect(NumRelayConns)
    \/ \E c \in RelayConns, r \in OneRoom, role \in Roles : proc = "ts" /\ JoinRoom(c, r, role)
    \/ \E c \in RelayConns, r \in OneRoom, sz \in TableSizeArgs : proc = "ts" /\ BookTable(c, r, sz)
    \/ \E c \in RelayConns, r \in OneRoom : proc = "ts" /\ EndSession(c, r)
    \/ \E c \in RelayConns : proc = "ts" /\ Disconnect(c)
    \/ proc = "client" /\ Tick
    \/ \E t \in TableArgs, who \in Parties : proc = "client" /\ reserveTable(t, who)
    \/ \E t \in TableArgs : proc = "client" /\ releaseTable(t)
    \/ \E sz \in TableSizeArgs : proc = "client" /\ HandleBookTable(sz)
    \/ \E t \in TableArgs : proc = "client" /\ assignTable(t)
    \/ proc = "client" /\ WaiterApproachedTimer
    \/ proc = "client" /\ DbReset

\* the process runs the relay of socket-server.ts or the browser client
InitReserve == Init /\ proc \in {"ts", "client"}

SpecReserve == InitReserve /\ [][NextReserve]_vars

RatingArgs == {0, 3, 6}
\* the table ids of the table-assigned events of the model
VisitorTableArgs == {5, 7}

\* the visitor flow controller under its methods, its timers and the reception popup
NextVisitor ==
    \/ enterReception
    \/ \E sz \in TableSizeArgs : startBooking(sz)
    \/ \E sz \in TableSizeArgs : HandleBookTable(sz)
    \/ \E t \in VisitorTableArgs : assignTable(t)
    \/ waiterApproached
    \/ WaiterApproachedTimer
    \/ reachedTable
    \/ sitDown
    \/ requestMenu
    \/ menuShown
    \/ MenuShownTimer
    \/ seatAtTable
    \/ startOrdering
    \/ \E items \in DbItemBatches \cup {<<>>}, rnd \in 1..NumRandom : placeOrder(items, rnd)
    \/ \E o \in DbOrderIds, st \in Statuses : VisitorUpdateOrderStatus(o, st)
    \/ \E rating \in RatingArgs : submitRating(rating)
    \/ VisitorReset

SpecVisitor == InitClient /\ [][NextVisitor]_vars

\* the relay and the visitor's browser together
InitEndToEnd == Init /\ proc = "ts"

\* the statuses of the order-status-update messages of the end-to-end runs
EndToEndStatusArgs == {"cooking", "served"}

\* one room of the relay with the browser of socket VisitorSocket: the browser's
\* controller is driven by the player and by the events the relay sent to that
\* socket in its last handler run; the browser sends book-table after
\* startBooking and place-order (with its currentTable) after placeOrder, the
\* relay handles them at any later time; order-status-update comes from any socket
NextEndToEnd ==
    \/ Connect(NumRelayConns)
    \/ \E c \in RelayConns, r \in OneRoom, role \in Roles : JoinRoom(c, r, role)
    \/ enterReception
    \/ \E sz \in TableSizeArgs : startBooking(sz)
    \/ \E r \in OneRoom :
          state.phase = "booking" /\ BookTable(VisitorSocket, r, state.selectedTableSize)
    \/ \E e \in emitted : e.to = VisitorSocket /\ HandleTableAssigned(e)
    \/ WaiterApproachedTimer
    \/ reachedTable
    \/ sitDown
    \/ requestMenu
    \/ MenuShownTimer
    \/ \E items \in DbItemBatches, rnd \in 1..NumRandom : placeOrder(items, rnd)
    \/ \E r \in OneRoom, items \in ItemBatches :
          state.phase = "waiting" /\ PlaceOrder(VisitorSocket, r, items, state.currentTable)
    \/ \E c \in RelayConns, r \in OneRoom, o \in RelayOrderIds, st \in EndToEndStatusArgs :
          OrderStatusUpdate(c, r, o, st)
    \/ \E e \in emitted : e.to = VisitorSocket /\ HandleOrderStatusChanged(e)

SpecEndToEnd == InitEndToEnd /\ [][NextEndToEnd]_vars

----------------------------------------------------------------------------
(* The chef: the controller's public methods and the callbacks of ChefFlow *)

\* the estimatedTime of the orders handed to the chef, in seconds: the relay's sum for
\* an empty item list, a positive one, and the negative sum of a negative quantity
ChefEstimates == {0 - 1, 0, MaxEstimate}

\* the instants the chef model looks at, in milliseconds: the start, and just before,
\* at and just after the largest estimatedTime
ChefTimes == {0, 1} \cup {1000 * MaxEstimate + d : d \in {0 - 1, 0, 1}}

\* Date.now() advances between two callbacks of the chef component
ChefClock ==
    /\ \E t \in ChefTimes : t > now /\ now' = t
    /\ UNCHANGED <<relayVars, clientVars>>

\* the dish labels of the orders handed to the chef: a name of the score table, a
\* label outside it, and a name that Object.prototype holds
ChefDishes == {"Grilled Steak", "2x Grilled Steak", "constructor"}

\* the orders handed to the chef: { id, dish, estimatedTime }; the negative estimate
\* comes with the first dish only, the third dish with the largest estimate only
ChefOrders ==
    {o \in {[id |-> OrderId(0, VisitorSocket), dish |-> d, estimatedTime |-> e]
              : d \in ChefDishes, e \in ChefEstimates} :
        /\ o.estimatedTime < 0 => o.dish = "Grilled Steak"
        /\ o.dish = "constructor" => o.estimatedTime = MaxEstimate}

NextChef ==
    \/ ChefClock
    \/ startTutorial
    \/ completeTutorial
    \/ enterKitchen
    \/ exitKitchen
    \/ \E order \in ChefOrders : receiveOrder(order)
    \/ startCooking
    \/ \E t \in ChefTimes : updateCookingProgress(t)
    \/ serveOrder
    \/ ChefReset
    \/ \E b \in BOOLEAN : KitchenProximity(b)
    \/ HandleTutorialComplete
    \/ CookingInterval

SpecChef == InitClient /\ [][NextChef]_vars

\* the methods of the chef controller alone, called in any order
NextChefCalls ==
    \/ ChefClock
    \/ startTutorial
    \/ completeTutorial
    \/ \E order \in ChefOrders : receiveOrder(order)
    \/ startCooking
    \/ \E t \in ChefTimes : updateCookingProgress(t)
    \/ serveOrder
    \/ ChefReset

SpecChefCalls == InitClient /\ [][NextChefCalls]_vars

----------------------------------------------------------------------------
(* Joining and leaving one room, under either relay *)

NextOneRoom ==
    \/ Connect(NumConns)
    \/ \E c \in Conns, r \in OneRoom, role \in Roles :
          (proc = "ts" /\ JoinRoom(c, r, role)) \/ (proc = "js" /\ JsJoinRoom(c, r, role))
    \/ \E c \in Conns : (proc = "ts" /\ Disconnect(c)) \/ (proc = "js" /\ JsDisconnect(c))

SpecOneRoom == InitJoin /\ [][NextOneRoom]_vars

----------------------------------------------------------------------------
(* Finding a table: book-table of the relay, findAvailableTable of the client *)

\* the party sizes asked for
BookSizes == {2, 5, 7}
\* the tables the client reserves and releases by id
BookTableArgs == {1, 3, 4, 6}
\* the tables the relay assigns to the visitor controller
AssignTableArgs == {1, 3}

NextTables ==
    \/ proc = "ts" /\ Connect(NumRelayConns)
    \/ \E c \in RelayConns, r \in OneRoom, role \in Roles : proc = "ts" /\ JoinRoom(c, r, role)
    \/ \E c \in RelayConns, r \in OneRoom, sz \in BookSizes : proc = "ts" /\ BookTable(c, r, sz)
    \/ \E t \in BookTableArgs : proc = "client" /\ reserveTable(t, "visitor")
    \/ \E t \in BookTableArgs : proc = "client" /\ releaseTable(t)
    \/ \E sz \in BookSizes : proc = "client" /\ HandleBookTable(sz)
    \/ \E sz \in BookSizes : proc = "client" /\ FindAvailableTable(sz)
    \/ \E sz \in BookSizes : proc = "client" /\ VisitorFindAvailableTable(sz)
    \/ \E t \in AssignTableArgs : proc = "client" /\ assignTable(t)
    \/ proc = "client" /\ WaiterApproachedTimer

SpecTables == InitReserve /\ [][NextTables]_vars

----------------------------------------------------------------------------
(* The total price of an order: place-order of the relay, createOrder of the client *)

\* the item lists of the place-order messages
PriceBatches ==
    { <<>>,
      <<[dish |-> "Grilled Steak", quantity |-> 2, price |-> 50]>>,
      <<[dish |-> "Grilled Steak", quantity |-> 2, price |-> 50],
        [dish |-> "Iced Tea", quantity |-> 3, price |-> 12]>> }

\* the item lists handed to createOrder
DbPriceBatches ==
    { <<>>,
      <<[name |-> "Burger", quantity |-> 2, price |-> 30]>>,
      <<[name |-> "Burger", quantity |-> 2, price |-> 30],
        [name |-> "Sushi", quantity |-> 3, price |-> 21]>> }

\* the table ids of the orders
PriceTableArgs == {1, 5}

NextPrice ==
    \/ proc = "ts" /\ Connect(NumRelayConns)
    \/ Tick
    \/ \E c \in RelayConns, r \in OneRoom, role \in Roles : proc = "ts" /\ JoinRoom(c, r, role)
    \/ \E c \in RelayConns, r \in OneRoom, items \in PriceBatches, t \in PriceTableArgs :
          proc = "ts" /\ PlaceOrder(c, r, items, t)
    \/ \E t \in PriceTableArgs : proc = "client" /\ reserveTable(t, "visitor")
    \/ \E t \in PriceTableArgs, items \in DbPriceBatches, rnd \in 1..NumRandom :
          proc = "client" /\ createOrder(t, items, rnd)

SpecPrice == InitReserve /\ [][NextPrice]_vars

----------------------------------------------------------------------------
(* A session of one room to its end, and the messages that come after: all handlers *)
(* but join-room, place-order, end-session and disconnect run here only for a room  *)
(* id with no room                                                                  *)

\* the event names of the handlers that only relay
RelayOnlyEvents == {"player-action", "tutorial-completed", "visitor-sat-down", "menu-requested"}

\* the table id a visitor-sat-down or menu-requested message carries in the model
RelayTableArgs == {1}

\* the position and rotation of a player-move message
PoseArgs == {"moved"}
\* the rating of a submit-rating message
RelayRatingArgs == {5}
\* the orders the status messages name: those a place-order at the first clock reading makes
SessionOrderIds == {OrderId(0, c) : c \in RelayConns}
SessionStatusArgs == {"cooking", "served"}
SessionTableArgs == {1}
SessionSizeArgs == {6}

NextSession ==
    \/ Connect(NumRelayConns)
    \/ \E c \in RelayConns, r \in OneRoom, role \in Roles : JoinRoom(c, r, role)
    \/ \E c \in RelayConns, r \in OneRoom, pose \in PoseArgs :
          r \notin DOMAIN rooms /\ PlayerMove(c, r, pose)
    \/ \E c \in RelayConns, r \in OneRoom, ev \in RelayOnlyEvents, t \in RelayTableArgs :
          r \notin DOMAIN rooms /\ RelayOnly(c, r, ev, t)
    \/ \E c \in RelayConns, r \in OneRoom, sz \in SessionSizeArgs :
          r \notin DOMAIN rooms /\ BookTable(c, r, sz)
    \/ \E c \in RelayConns, r \in OneRoom, items \in ItemBatches, t \in SessionTableArgs :
          PlaceOrder(c, r, items, t)
    \/ \E c \in RelayConns, r \in OneRoom, o \in SessionOrderIds, st \in SessionStatusArgs :
          r \notin DOMAIN rooms /\ OrderStatusUpdate(c, r, o, st)
    \/ \E c \in RelayConns, r \in OneRoom, o \in SessionOrderIds :
          r \notin DOMAIN rooms /\ OrderCompleted(c, r, o)
    \/ \E c \in RelayConns, r \in OneRoom, rating \in RelayRatingArgs :
          r \notin DOMAIN rooms /\ SubmitRating(c, r, rating)
    \/ \E c \in RelayConns, r \in OneRoom : EndSession(c, r)
    \/ \E c \in RelayConns : Disconnect(c)

SpecSession == InitTs /\ [][NextSession]_vars

----------------------------------------------------------------------------
(* Two rooms side by side under the messages that carry a room id *)

\* the room a connection joins: odd socket ids room A, even ones room B; book-table and
\* end-session are sent by either connection for either room, the other messages for room A
RoomOf(c) == IF c % 2 = 1 THEN "A" ELSE "B"

\* the two connections of the two-room scenario, one per room
RoomsConns == {1, 2}

NextRooms ==
    \/ Connect(NumRelayConns)
    \/ \E c \in RoomsConns, role \in Roles : JoinRoom(c, RoomOf(c), role)
    \/ \E c \in RoomsConns, pose \in PoseArgs : PlayerMove(c, "A", pose)
    \/ \E c \in RoomsConns, r \in RoomIds, sz \in SessionSizeArgs : BookTable(c, r, sz)
    \/ \E c \in RoomsConns, items \in ItemBatches, t \in SessionTableArgs :
          PlaceOrder(c, "A", items, t)
    \/ \E c \in RoomsConns, o \in SessionOrderIds, st \in SessionStatusArgs :
          OrderStatusUpdate(c, "A", o, st)
    \/ \E c \in RoomsConns, o \in SessionOrderIds : OrderCompleted(c, "A", o)
    \/ \E c \in RoomsConns, r \in RoomIds : EndSession(c, r)

SpecRooms == InitTs /\ [][NextRooms]_vars

----------------------------------------------------------------------------
(* The event timing controller under its public methods and its timer callbacks *)

\* the event ids handed to triggerEvent from outside: a manual event of the table, and an
\* id that is not in it
TriggerArgs == {"table_assigned", "no_such_event"}

\* the event ids handed to triggerManualEvent: the events without autoTrigger
ManualArgs == {id \in EventIds : ~EventTimings(id).autoTrigger}

\* the steps of the clock, in milliseconds: every delay of the table is a multiple
TimeSteps == {500}

NextTiming ==
    \/ startSession
    \/ \E id \in TriggerArgs : triggerEvent(id)
    \/ \E id \in ManualArgs : triggerManualEvent(id)
    \/ \E ms \in TimeSteps : TimePasses(ms)
    \/ TimerFires
    \/ resetSession
    \/ destroy

SpecTiming == InitClient /\ [][NextTiming]_vars

----------------------------------------------------------------------------
(* The standalone cooking game under its public methods *)

\* the recipes startNewOrder draws: Margherita Pizza, whose points lose to rounding
\* under the penalty
GameRecipeArgs == {6}

\* the ingredients toggled: those of the pizza and one it does not need
GameIngredients == RECIPES[6].ingredients \cup {"salt"}

\* the times handed to startCooking and update: the start, and just before and at the
\* pizza's cookTime
GameTimes == {0, RECIPES[6].cookTime - 1, RECIPES[6].cookTime}

NextGame ==
    \/ \E index \in GameRecipeArgs : startNewOrder(index)
    \/ \E ing \in GameIngredients : toggleIngredient(ing)
    \/ \E t \in GameTimes : game.completedOrders < MaxCompleted /\ GameStartCooking(t)
    \/ \E t \in GameTimes : GameUpdate(t)
    \/ serveDish
    \/ GameReset

SpecGame == InitClient /\ [][NextGame]_vars

Next == NextGame \/ NextTiming \/ NextRooms \/ NextSession \/ NextPrice \/ NextTables \/ NextOneRoom \/ NextChef \/ NextEndToEnd \/ NextRelay \/ NextJoin \/ NextInventory \/ NextDb \/ NextReserve \/ NextVisitor

Spec == Init /\ [][Next]_vars

----------------------------------------------------------------------------
(* Statements *)

\* C1: under any sequence of join-room, disconnect and end-session messages,
\* every room of the store holds at most 2 players, at most one of them a
\* visitor and at most one of them a chef.
C1_RoomCapacityAndRoles ==
    \A r \in DOMAIN rooms :
        /\ Cardinality(DOMAIN rooms[r].players) <= 2
        /\ \A role \in {"visitor", "chef"} :
              Cardinality({p \in DOMAIN rooms[r].players : rooms[r].players[p] = role}) <= 1

\* a full room (a visitor and a chef) has just turned a third socket away
C1_Witness ==
    \E r \in DOMAIN rooms :
        /\ Cardinality(DOMAIN rooms[r].players) = 2
        /\ \E e \in emitted : e.ev = "room-full" /\ e.to \notin DOMAIN rooms[r].players

\* C2: a table that is occupied is never assigned again, on the relay (book-table)
\* and on the client's table store (reserveTable from the reception popup, from
\* assignTable of the controller, or called directly): the request on an occupied
\* table fails, and the table keeps its reservedBy (and reservedAt).
C2_ReservationExclusive ==
    [][/\ \A r \in (DOMAIN rooms) \cap (DOMAIN rooms'), id \in 1..6 :
            rooms[r].tables[id].isOccupied => rooms'[r].tables[id] = rooms[r].tables[id]
       /\ \A id \in 1..6 :
            tables[id].isOccupied /\ tables'[id].isOccupied
            => /\ tables'[id].reservedBy = tables[id].reservedBy
               /\ tables'[id].reservedAt = tables[id].reservedAt
       /\ \A t \in 1..6, who \in Parties :
            reserveTable(t, who) /\ tables[t].isOccupied
            => ret'.val = "false" /\ tables' = tables
       /\ \A t \in 1..6 :
            assignTable(t) /\ tables[t].isOccupied
            => tables' = tables /\ state' = state /\ vTables' = vTables]_vars

\* the reception popup reserved a table, and assignTable for that table then
\* failed on the client; or the relay answered table-unavailable with both
\* tables of capacity 6 booked
C2_Witness ==
    \/ /\ proc = "client"
       /\ ret.op = "assignTable" /\ ret.arg = 5
       /\ tables[5].isOccupied /\ tables[5].reservedBy = "visitor"
       /\ state.currentTable = 0
    \/ /\ proc = "ts"
       /\ \E r \in DOMAIN rooms :
             /\ rooms[r].tables[5].isOccupied /\ rooms[r].tables[6].isOccupied
             /\ \E e \in emitted : e.ev = "table-unavailable"

\* C3: a transition method of the visitor controller invoked in a phase other
\* than the one it requires leaves the whole VisitorState unchanged.
C3_GuardedTransitions ==
    [][/\ (enterReception /\ state.phase # "entrance" => state' = state)
       /\ \A sz \in TableSizeArgs :
            (startBooking(sz) /\ state.phase # "reception" => state' = state)
       /\ \A t \in VisitorTableArgs :
            (assignTable(t) /\ state.phase # "booking" => state' = state)
       /\ (waiterApproached /\ state.phase # "waiter_approaching" => state' = state)
       /\ (reachedTable /\ state.phase # "walking_to_table" => state' = state)
       /\ (sitDown /\ state.phase # "at_table" => state' = state)
       /\ (requestMenu /\ state.phase # "seated" => state' = state)
       /\ (menuShown /\ state.phase # "menu_requested" => state' = state)
       /\ \A items \in DbItemBatches, rnd \in 1..NumRandom :
            (placeOrder(items, rnd) /\ state.phase # "ordering" => state' = state)
       /\ \A o \in DbOrderIds, st \in Statuses :
            (VisitorUpdateOrderStatus(o, st) /\ state.phase # "waiting" => state' = state)
       /\ \A rating \in RatingArgs :
            (submitRating(rating) /\ state.phase # "served" => state' = state)]_vars

\* pending -> cooking -> ready -> served
StatusRank(status) ==
    CASE status = "pending" -> 0 [] status = "cooking" -> 1
      [] status = "ready" -> 2 [] status = "served" -> 3

\* C4: under order-status-update and order-completed messages the status of an
\* order of a room's ledger only moves forward along pending, cooking, ready,
\* served, and its tableId never changes.
C4_StatusMonotonic ==
    [][\A c \in RelayConns, r \in OneRoom, o \in RelayOrderIds, s \in Statuses :
          (OrderStatusUpdate(c, r, o, s) \/ OrderCompleted(c, r, o))
          /\ r \in DOMAIN rooms /\ r \in DOMAIN rooms'
          /\ o \in DOMAIN rooms[r].orders /\ o \in DOMAIN rooms'[r].orders
          => /\ StatusRank(rooms'[r].orders[o].status) >= StatusRank(rooms[r].orders[o].status)
             /\ rooms'[r].orders[o].tableId = rooms[r].orders[o].tableId]_vars

\* C5: the disconnect of a room's last player removes the room in that handler
\* run, and a room that appears in the store (the next join-room of its id) has
\* 6 unoccupied tables reserved by nobody, an empty ledger and the joiner as its
\* only player, whatever the deleted room held.
C5_FreshRoomAfterLastLeaves ==
    [][/\ \A c \in RelayConns, r \in DOMAIN rooms :
            Disconnect(c) /\ DOMAIN rooms[r].players = {c} => r \notin DOMAIN rooms'
       /\ \A c \in RelayConns, r \in RoomIds, role \in Roles :
            JoinRoom(c, r, role) /\ r \notin DOMAIN rooms
            => /\ r \in DOMAIN rooms'
               /\ DOMAIN rooms'[r].tables = 1..6
               /\ \A id \in 1..6 : /\ ~rooms'[r].tables[id].isOccupied
                                   /\ rooms'[r].tables[id].reservedBy = NoSocket
               /\ rooms'[r].orders = EmptyMap
               /\ DOMAIN rooms'[r].players = {c}]_vars

\* a room deleted while it held a reservation and an order has been joined
\* again under the same id
C5_Witness ==
    \E r \in hist.buried :
        /\ r \in DOMAIN rooms
        /\ \E e \in emitted : e.ev = "room-joined" /\ DOMAIN rooms[r].players = {e.to}
        /\ \A id \in 1..6 : ~rooms[r].tables[id].isOccupied

\* C6: an order-status-update to served removes the order from the ledger in
\* that handler run, and every later order-status-update or order-completed
\* for that order id changes no room and sends no event.
C6_ServedIsFinal ==
    [][\A c \in RelayConns, r \in OneRoom, o \in RelayOrderIds :
          /\ (OrderStatusUpdate(c, r, o, "served") /\ r \in DOMAIN rooms)
               => o \notin DOMAIN rooms'[r].orders
          /\ \A s \in Statuses :
               (OrderStatusUpdate(c, r, o, s) \/ OrderCompleted(c, r, o))
               /\ hist.lastServed[r] = o
               => rooms' = rooms /\ emitted' = {}]_vars

\* C7: after any sequence of updateInventory calls on batches of lines with
\* positive quantities, the available count of every menu item is >= 0.
C7_AvailableNonNegative == \A id \in MenuIds : menuItems[id] >= 0

\* a line that names no menu item or asks for more than the item's count
LineFails(line) ==
    \/ \A id \in MenuIds : MenuName(id) # line.name
    \/ \E id \in MenuIds : MenuName(id) = line.name /\ menuItems[id] < line.quantity

\* C8: for a batch with a line that names no menu item or asks for more than
\* the item's remaining count, checkAvailability returns false and
\* updateInventory returns false and changes no available count.
C8_AllOrNothing ==
    [][/\ ( /\ ret'.op = "checkAvailability"
            /\ CheckAvailability(ret'.arg)
            /\ \E i \in 1..Len(ret'.arg) : LineFails(ret'.arg[i]) )
          => ret'.val = "false"
       /\ ( /\ ret'.op = "updateInventory"
            /\ updateInventory(ret'.arg)
            /\ \E i \in 1..Len(ret'.arg) : LineFails(ret'.arg[i]) )
          => ret'.val = "false" /\ menuItems' = menuItems]_vars

\* updateInventory returned false for a batch whose first line could be served
\* and whose second line could not, after an earlier batch was served
C8_Witness ==
    /\ ret.op = "updateInventory" /\ ret.val = "false"
    /\ Len(ret.arg) = 2
    /\ ~LineFails(ret.arg[1]) /\ LineFails(ret.arg[2])
    /\ menuItems["burger"] \in 1..4

\* C9: createOrder on a table id that does not exist, or on a table that is not
\* occupied, returns null, adds no order and changes no table's currentOrder.
C9_CreateOrderNeedsOccupiedTable ==
    [][\A t \in TableArgs, items \in DbItemBatches, rnd \in 1..NumRandom :
          createOrder(t, items, rnd) /\ (t \notin 1..6 \/ ~tables[t].isOccupied)
          => /\ ret'.val = "null"
             /\ orders' = orders
             /\ \A id \in 1..6 : tables'[id].currentOrder = tables[id].currentOrder]_vars

\* createOrder returned null for an unoccupied table while another table
\* holds an order
C9_Witness ==
    /\ ret.op = "createOrder" /\ ret.val = "null"
    /\ ret.arg[1] \in 1..6 /\ ~tables[ret.arg[1]].isOccupied
    /\ \E id \in 1..6 : tables[id].currentOrder \in DOMAIN orders

\* C10: a place-order naming a table that is not occupied in the sender's room
\* adds no order to the ledger and sends no order-received event.
C10_PlaceOrderNeedsOccupiedTable ==
    [][\A c \in RelayConns, r \in OneRoom, items \in ItemBatches, t \in OrderTableArgs :
          PlaceOrder(c, r, items, t) /\ r \in DOMAIN rooms
          /\ ~rooms[r].tables[t].isOccupied
          => /\ rooms'[r].orders = rooms[r].orders
             /\ \A e \in emitted' : e.ev # "order-received"]_vars

\* C11: a visitor machine in phase booking that receives table-assigned for a
\* table t of the room (handleTableAssigned calls assignTable(t)) moves to
\* waiter_approaching with currentTable = t, whatever occupancy the client's
\* own table store records.
C11_AssignedTableIsTaken ==
    [][\A t \in VisitorTableArgs \cap TableIds :
          assignTable(t) /\ state.phase = "booking"
          => state'.phase = "waiter_approaching" /\ state'.currentTable = t]_vars

\* C12: when the browser of a visitor who placed an order (phase waiting) handles
\* the relay's order-status-changed event with status served for the order the
\* relay accepted from that visitor, the visitor machine moves to served.
C12_ServedReachesVisitor ==
    [][\A e \in emitted :
          /\ e.to = VisitorSocket /\ e.status = "served" /\ e.oid.c = VisitorSocket
          /\ \E r \in DOMAIN rooms : \E p \in DOMAIN rooms[r].players :
                rooms[r].players[p] = "chef"
          /\ HandleOrderStatusChanged(e)
          /\ state.phase = "waiting"
          => state'.phase = "served"]_vars

\* C13: each time the chef completes cooking, the score grows by exactly
\* base(dish) + floor(10 * max(0, estimatedTime - timeRemaining)), base being 100, 150,
\* 80, 120, 200, 180 for the six known dishes and 100 for any other name; with a time
\* bonus of zero the growth is exactly base(dish).
C13_ScoreOnCompletion ==
    [][chef'.completedOrders = chef.completedOrders + 1
       => LET dish == chef.currentOrder.dish
              base == IF dish = "Pasta Carbonara" THEN 100
                      ELSE IF dish = "Grilled Steak" THEN 150
                      ELSE IF dish = "Caesar Salad" THEN 80
                      ELSE IF dish = "Tomato Soup" THEN 120
                      ELSE IF dish = "Gourmet Burger" THEN 200
                      ELSE IF dish = "Margherita Pizza" THEN 180
                      ELSE 100
              slack == 1000 * chef.currentOrder.estimatedTime - chef'.timeRemaining
              bonus == IF slack > 0 THEN slack ELSE 0
          IN  /\ chef'.scoreText = <<>>
              /\ chef'.score - chef.score = base + ((10 * bonus) \div 1000)
              /\ bonus = 0 => chef'.score - chef.score = base]_vars

\* C14: for a chef in phase cooking with an order of estimatedTime E, a progress sample
\* taken E seconds or more after the cooking start sets cookingProgress to 100 and the
\* phase to serving in that call; an earlier sample keeps the phase cooking.
C14_SampleAtEstimateCompletes ==
    [][\A t \in ChefTimes :
          chef.phase = "cooking" /\ updateCookingProgress(t)
          => IF t - chef.cookingStartTime >= 1000 * chef.currentOrder.estimatedTime
             THEN chef'.phase = "serving" /\ chef'.cookingProgress = Frac(100, 1)
             ELSE chef'.phase = "cooking"]_vars

\* C15: a chef in phase spawn is in phase tutorial after the kitchen proximity effect has
\* seen it enter the kitchen, and in waiting_for_order after it then acknowledges the
\* tutorial.
C15_KitchenStartsTutorial ==
    [][/\ chef.phase = "spawn" /\ KitchenProximity(TRUE) /\ chef'.isInKitchen /\ ~chef.isInKitchen
          => chef'.phase = "tutorial"
       /\ chef.isInKitchen /\ ~chef.tutorialCompleted /\ HandleTutorialComplete
          => chef'.phase = "waiting_for_order"]_vars

\* C16: once tutorialCompleted is true it is true after every later operation of the
\* chef controller, reset included.
C16_TutorialCompletedStays ==
    [][chef.tutorialCompleted => chef'.tutorialCompleted]_vars

\* C17: a join-room to a room that holds 2 players is answered with room-full, and one to
\* a room with fewer than 2 players, one of them with the requested role, with
\* role-taken; either way the room's player map is unchanged and the one event emitted
\* goes to the requesting connection.
C17_RefusedJoinTouchesNothing ==
    [][\A c \in Conns, r \in OneRoom, role \in Roles :
          /\ r \in DOMAIN rooms
          /\ \/ Cardinality(DOMAIN rooms[r].players) >= 2
             \/ \E p \in DOMAIN rooms[r].players : rooms[r].players[p] = role
          /\ (proc = "ts" /\ JoinRoom(c, r, role)) \/ (proc = "js" /\ JsJoinRoom(c, r, role))
          => /\ rooms'[r].players = rooms[r].players
             /\ Cardinality(emitted') = 1
             /\ \A e \in emitted' :
                   /\ e.to = c
                   /\ e.ev = IF Cardinality(DOMAIN rooms[r].players) >= 2
                             THEN "room-full" ELSE "role-taken"]_vars

\* a connection outside a room of two has just been refused, or one asking for the role
\* of the single member has
C17_Witness ==
    \E r \in DOMAIN rooms, e \in emitted :
        /\ e.to \notin DOMAIN rooms[r].players
        /\ \/ e.ev = "room-full" /\ Cardinality(DOMAIN rooms[r].players) = 2
           \/ e.ev = "role-taken" /\ Cardinality(DOMAIN rooms[r].players) = 1

\* C18: a book-table request for size s gets the first table, in the order of the static
\* list (ids 1..6, capacities 4,4,2,2,6,6), that is unoccupied and has capacity >= s, and
\* table-unavailable exactly when there is none; so size 2 with only a size-4 and a
\* size-6 table free gets the size-4 table.  Stated for the relay's book-table and for
\* the reception menu's booking through findAvailableTable.
C18_FirstFit ==
    [][LET cap == <<4, 4, 2, 2, 6, 6>>
           fits(tm, sz) == {id \in 1..6 : ~tm[id].isOccupied /\ cap[id] >= sz}
           first(tm, sz) == CHOOSE id \in fits(tm, sz) : \A other \in fits(tm, sz) : id <= other
       IN  /\ \A c \in RelayConns, r \in OneRoom, sz \in BookSizes :
               /\ proc = "ts"
               /\ r \in DOMAIN rooms
               /\ c \in DOMAIN rooms[r].players
               /\ rooms[r].players[c] = "visitor"
               /\ BookTable(c, r, sz)
               => IF fits(rooms[r].tables, sz) = {}
                  THEN /\ \E e \in emitted' : e.to = c /\ e.ev = "table-unavailable"
                       /\ \A e \in emitted' : e.ev # "table-assigned"
                       /\ rooms' = rooms
                  ELSE /\ \E e \in emitted' : /\ e.to = c /\ e.ev = "table-assigned"
                                               /\ e.tableId = first(rooms[r].tables, sz)
                       /\ \A e \in emitted' :
                             /\ e.ev # "table-unavailable"
                             /\ e.ev = "table-assigned" => e.tableId = first(rooms[r].tables, sz)
                       /\ rooms'[r].tables[first(rooms[r].tables, sz)].isOccupied
           /\ ret'.op = "handleBookTable"
               => IF fits(tables, ret'.arg) = {}
                  THEN ret'.val = "alert-none" /\ tables' = tables
                  ELSE /\ ret'.val = "booked"
                       /\ tables'[first(tables, ret'.arg)].isOccupied
                       /\ \A id \in 1..6 :
                             id # first(tables, ret'.arg) => tables'[id] = tables[id]]_vars

\* the reception menu has booked size 2 with only table 2 (size 4) and table 5 (size 6)
\* free, and table 2 was taken
C18_Witness ==
    /\ ret = Ret("handleBookTable", 2, "booked")
    /\ \A id \in {1, 2, 3, 4, 6} : tables[id].isOccupied
    /\ ~tables[5].isOccupied

\* C19: whatever the tables and the requested size, findAvailableTable (of the database
\* and of the visitor controller) returns null or a table that is unoccupied and has
\* capacity >= the size, and null only when no such table exists.
C19_FoundTableFits ==
    [][LET cap == <<4, 4, 2, 2, 6, 6>>
           sound(tm, sz, id) ==
               /\ id # 0 => id \in 1..6 /\ ~tm[id].isOccupied /\ cap[id] >= sz
               /\ id = 0 => \A t \in 1..6 : tm[t].isOccupied \/ cap[t] < sz
       IN  /\ ret'.op = "findAvailableTable" => sound(tables, ret'.arg, ret'.val)
           /\ ret'.op = "visitor.findAvailableTable" => sound(vTables, ret'.arg, ret'.val)]_vars

\* with tables 1 and 3 taken in both Maps, the controller was asked for size 2 and
\* returned table 2
C19_Witness ==
    /\ ret = Ret("visitor.findAvailableTable", 2, 2)
    /\ vTables[1].isOccupied /\ vTables[3].isOccupied
    /\ tables[1].isOccupied /\ tables[6].isOccupied

\* C20: the total price stored for an order made by createOrder or by the relay's
\* place-order is the sum of the price fields of the submitted lines, quantities not
\* multiplying them again.
C20_TotalIsSumOfLinePrices ==
    [][/\ \A c \in RelayConns, r \in OneRoom, items \in PriceBatches, t \in PriceTableArgs :
            /\ proc = "ts"
            /\ r \in DOMAIN rooms
            /\ c \in DOMAIN rooms[r].players
            /\ rooms[r].players[c] = "visitor"
            /\ PlaceOrder(c, r, items, t)
            => LET sum[i \in 0..Len(items)] == IF i = 0 THEN 0 ELSE sum[i - 1] + items[i].price
               IN  /\ \E o \in DOMAIN rooms'[r].orders :
                         /\ rooms'[r].orders[o].price = sum[Len(items)]
                         /\ rooms'[r].orders[o].tableId = t
                   /\ \A o \in DOMAIN rooms'[r].orders :
                         \/ /\ o \in DOMAIN rooms[r].orders
                            /\ rooms'[r].orders[o] = rooms[r].orders[o]
                         \/ rooms'[r].orders[o].price = sum[Len(items)]
       /\ ret'.op = "createOrder" /\ ret'.val = "order"
            => LET items == ret'.arg[2]
                   sum[i \in 0..Len(items)] == IF i = 0 THEN 0 ELSE sum[i - 1] + items[i].price
               IN  /\ \E o \in DOMAIN orders' :
                         /\ orders'[o].totalPrice = sum[Len(items)]
                         /\ orders'[o].items = items
                         /\ orders'[o].tableId = ret'.arg[1]
                   /\ \A o \in DOMAIN orders' :
                         \/ o \in DOMAIN orders /\ orders'[o] = orders[o]
                         \/ orders'[o].totalPrice = sum[Len(items)]]_vars

\* createOrder has stored two lines priced 30 (2 burgers) and 21 (3 sushi) with total 51
C20_Witness ==
    /\ ret.op = "createOrder" /\ ret.val = "order"
    /\ Len(ret.arg[2]) = 2
    /\ \E o \in DOMAIN orders :
          /\ orders[o].items = ret.arg[2]
          /\ orders[o].totalPrice = ret.arg[2][1].price + ret.arg[2][2].price
          /\ orders[o].totalPrice = 51

\* C21: when a player disconnects from a room that keeps another player and holds an
\* order that is not served, the disconnect handler removes that order from the room's
\* ledger and sends an event about the order to the remaining player.
C21_DisconnectCancelsOrders ==
    [][\A c \in RelayConns, r \in DOMAIN rooms :
          /\ c \in DOMAIN rooms[r].players
          /\ DOMAIN rooms[r].players # {c}
          /\ \E o \in DOMAIN rooms[r].orders : rooms[r].orders[o].status # "served"
          /\ Disconnect(c)
          => /\ r \in DOMAIN rooms'
             /\ \A o \in DOMAIN rooms[r].orders :
                   rooms[r].orders[o].status # "served" => o \notin DOMAIN rooms'[r].orders
             /\ \E e \in emitted' : e.to \in DOMAIN rooms'[r].players /\ e.oid # NoOrder]_vars

\* C22: an end-session message for an existing room sends session-ended, with the room's
\* players and orders, to every member of the room and to the sender, and the room is
\* then absent from the store; while the room id has no room, every message for it
\* other than join-room leaves the rooms and the socket.io rooms as they are.
C22_EndSessionClosesRoom ==
    [][\A c \in RelayConns, r \in OneRoom :
          /\ r \in DOMAIN rooms /\ EndSession(c, r)
             => /\ r \notin DOMAIN rooms'
                /\ \A x \in DOMAIN rooms[r].players \cup {c} :
                      \E e \in emitted' :
                         /\ e.to = x
                         /\ e.ev = "session-ended"
                         /\ e.players = rooms[r].players
                         /\ e.orders = rooms[r].orders
          /\ /\ r \notin DOMAIN rooms
             /\ \/ \E pose \in PoseArgs : PlayerMove(c, r, pose)
                \/ \E ev \in RelayOnlyEvents, t \in RelayTableArgs : RelayOnly(c, r, ev, t)
                \/ \E sz \in SessionSizeArgs : BookTable(c, r, sz)
                \/ \E items \in ItemBatches, t \in SessionTableArgs : PlaceOrder(c, r, items, t)
                \/ \E o \in SessionOrderIds, st \in SessionStatusArgs : OrderStatusUpdate(c, r, o, st)
                \/ \E o \in SessionOrderIds : OrderCompleted(c, r, o)
                \/ \E rating \in RelayRatingArgs : SubmitRating(c, r, rating)
                \/ EndSession(c, r)
             => rooms' = rooms /\ ioRooms' = ioRooms]_vars

\* the session of a room with an order was ended by a member, both members were told,
\* and the room is gone
C22_Witness ==
    /\ "A" \notin DOMAIN rooms
    /\ Cardinality({e.to : e \in emitted}) = 2
    /\ \A e \in emitted :
          /\ e.ev = "session-ended"
          /\ DOMAIN e.players = {x.to : x \in emitted}
          /\ e.orders # EmptyMap

\* C23: a place-order message accepted in a room gets an order id that no order of the
\* room's ledger has: the ledger gains one order and every order it held is unchanged,
\* also when the messages come from one connection at one clock reading.
C23_AcceptedOrderGetsNewId ==
    [][\A c \in RelayConns, r \in OneRoom, items \in PriceBatches, t \in PriceTableArgs :
          /\ proc = "ts"
          /\ r \in DOMAIN rooms
          /\ c \in DOMAIN rooms[r].players
          /\ rooms[r].players[c] = "visitor"
          /\ PlaceOrder(c, r, items, t)
          => /\ Cardinality(DOMAIN rooms'[r].orders) = Cardinality(DOMAIN rooms[r].orders) + 1
             /\ \A o \in DOMAIN rooms[r].orders :
                   /\ o \in DOMAIN rooms'[r].orders
                   /\ rooms'[r].orders[o] = rooms[r].orders[o]]_vars

\* C24: every change of the visitor controller's phase, reset apart, goes from a phase
\* to its immediate successor in the order entrance, reception, booking,
\* waiter_approaching, walking_to_table, at_table, seated, menu_requested, ordering,
\* waiting, served, rating, complete; so complete is entered from rating only.
C24_PhaseStepsToSuccessor ==
    [][LET order == <<"entrance", "reception", "booking", "waiter_approaching",
                      "walking_to_table", "at_table", "seated", "menu_requested",
                      "ordering", "waiting", "served", "rating", "complete">>
           rank(p) == CHOOSE i \in 1..Len(order) : order[i] = p
       IN  state'.phase # state.phase /\ ret'.op # "reset"
           => rank(state'.phase) = rank(state.phase) + 1]_vars

\* C25: submitRating with a value outside 1..5 stores nothing and does not complete the
\* flow, so the rating of the visitor state is null or an integer in 1..5.
C25_RatingInRange ==
    [][ret'.op = "submitRating" /\ ret'.arg \notin 1..5
       => state'.rating = state.rating /\ state'.phase = state.phase]_vars

\* C26: placeOrder moves the visitor controller from ordering to waiting only when the
\* order has at least one item and the assigned table exists and is occupied; with an
\* empty item list, or without such a table, the phase stays ordering and no order is
\* created.
C26_PlaceOrderNeedsItemsAndTable ==
    [][/\ ret'.op = "placeOrder"
       /\ state.phase = "ordering"
       /\ \/ ret'.arg = <<>>
          \/ state.currentTable \notin DOMAIN tables
          \/ ~tables[state.currentTable].isOccupied
       => state'.phase = "ordering" /\ orders' = orders /\ vOrders' = vOrders]_vars

\* C27: handling a message that carries room id R (join-room, player-move, book-table,
\* place-order, order-status-update, order-completed, end-session) leaves every other
\* room as it is: present or absent as before, with the same players, tables and orders.
C27_OtherRoomsUntouched ==
    [][\A r \in RoomIds :
          \/ \A q \in RoomIds \ {r} :
                /\ q \in DOMAIN rooms' <=> q \in DOMAIN rooms
                /\ q \in DOMAIN rooms => rooms'[q] = rooms[q]
          \/ ~ \E c \in RelayConns :
                \/ \E role \in Roles : JoinRoom(c, r, role)
                \/ \E pose \in PoseArgs : PlayerMove(c, r, pose)
                \/ \E sz \in SessionSizeArgs : BookTable(c, r, sz)
                \/ \E items \in ItemBatches, t \in SessionTableArgs : PlaceOrder(c, r, items, t)
                \/ \E o \in SessionOrderIds, st \in SessionStatusArgs :
                      OrderStatusUpdate(c, r, o, st)
                \/ \E o \in SessionOrderIds : OrderCompleted(c, r, o)
                \/ EndSession(c, r)]_vars

\* both rooms have booked table 5, each for its own visitor, the last booking just now
C27_Witness ==
    /\ DOMAIN rooms = {"A", "B"}
    /\ rooms["A"].tables[5].isOccupied /\ rooms["B"].tables[5].isOccupied
    /\ rooms["A"].tables[5].reservedBy # rooms["B"].tables[5].reservedBy
    /\ \E e \in emitted : e.ev = "table-assigned" /\ e.tableId = 5


\* C28: reserveTable on an occupied table or on a table that does not exist returns false
\* and leaves every table's isOccupied, reservedBy and reservedAt as they were; it returns
\* true only on an existing unoccupied table, which is then occupied and reserved by the
\* caller, the other tables unchanged.
C28_ReserveTableAllOrNothing ==
    [][\A t \in TableArgs, who \in Parties :
          reserveTable(t, who)
          => IF t \in 1..6 /\ ~tables[t].isOccupied
             THEN /\ ret'.val = "true"
                  /\ tables'[t].isOccupied
                  /\ tables'[t].reservedBy = who
                  /\ \A id \in (1..6) \ {t} : tables'[id] = tables[id]
             ELSE /\ ret'.val = "false"
                  /\ \A id \in 1..6 :
                        /\ tables'[id].isOccupied = tables[id].isOccupied
                        /\ tables'[id].reservedBy = tables[id].reservedBy
                        /\ tables'[id].reservedAt = tables[id].reservedAt]_vars

\* reserveTable was just refused on table 5, which another party holds; or on table 7,
\* which does not exist, after table 1 was reserved
C28_Witness ==
    /\ proc = "client"
    /\ ret.op = "reserveTable" /\ ret.val = "false"
    /\ \/ /\ ret.arg[1] = 5
          /\ tables[5].isOccupied
          /\ tables[5].reservedBy # ret.arg[2]
       \/ /\ ret.arg[1] = 7
          /\ tables[1].isOccupied


\* C29: receiveOrder changes the chef machine only in the phase waiting_for_order, where it
\* stores the order as currentOrder, sets the phase to cooking and timeRemaining to the
\* order's estimatedTime; in every other phase it leaves the machine's state as it is, and
\* the order is not kept for later: currentOrder becomes an order only in a receiveOrder
\* call made in waiting_for_order, and it is that call's order.
C29_OrderTakenOnlyWhenWaiting ==
    [][/\ \A order \in ChefOrders :
             receiveOrder(order)
             => IF chef.phase = "waiting_for_order"
                THEN /\ chef'.currentOrder = order
                     /\ chef'.phase = "cooking"
                     /\ chef'.timeRemaining = 1000 * order.estimatedTime
                ELSE chef' = chef
       /\ chef'.currentOrder # chef.currentOrder /\ chef'.currentOrder # NoChefOrder
          => /\ chef.phase = "waiting_for_order"
             /\ ret'.op = "receiveOrder"
             /\ chef'.currentOrder = ret'.arg]_vars

\* the last receiveOrder call was made while another order was being cooked or served, and
\* the order at hand is still the earlier one; or it was made before the chef waited for
\* orders, and the chef now waits with no order at hand
C29_Witness ==
    /\ ret.op = "receiveOrder"
    /\ \/ /\ chef.phase \in {"cooking", "serving"}
          /\ chef.currentOrder # NoChefOrder
          /\ chef.currentOrder # ret.arg
       \/ /\ chef.phase = "waiting_for_order"
          /\ chef.currentOrder = NoChefOrder
          /\ chef.completedOrders = 0


\* C30: whatever the sequence of sample times handed to updateCookingProgress (a sample
\* earlier than the cooking start and an order of estimatedTime 0 included),
\* cookingProgress is a number from 0 to 100 and timeRemaining is from 0 to the
\* estimatedTime of the order at hand.
C30_ProgressAndTimeInRange ==
    /\ chef.cookingProgress.den > 0
    /\ 0 <= chef.cookingProgress.num
    /\ chef.cookingProgress.num <= 100 * chef.cookingProgress.den
    /\ 0 <= chef.timeRemaining
    /\ chef.currentOrder # NoChefOrder
       => chef.timeRemaining <= 1000 * chef.currentOrder.estimatedTime


\* C31: order-status-update, order-completed and end-session naming room R, sent by a
\* connection that is not a player of R, leave R in the store with its orders unchanged.
C31_OnlyMembersChangeOrders ==
    [][\A r \in RoomIds :
          \/ r \notin DOMAIN rooms
          \/ r \in DOMAIN rooms' /\ rooms'[r].orders = rooms[r].orders
          \/ ~ \E c \in RoomsConns :
                /\ c \notin DOMAIN rooms[r].players
                /\ \/ \E o \in SessionOrderIds, st \in SessionStatusArgs :
                         OrderStatusUpdate(c, r, o, st)
                   \/ \E o \in SessionOrderIds : OrderCompleted(c, r, o)
                   \/ EndSession(c, r)]_vars


\* C32: in every room of the store, each occupied table is reserved by a connection that
\* is a player of that room now.
C32_OccupiedTablesBelongToPlayers ==
    \A r \in DOMAIN rooms : \A id \in TableIds :
        rooms[r].tables[id].isOccupied
        => rooms[r].tables[id].reservedBy \in DOMAIN rooms[r].players

\* C33: in every room of the store, a visitor connection is the reservedBy of at most one
\* occupied table.
C33_OneTablePerVisitor ==
    \A r \in DOMAIN rooms : \A a, b \in TableIds :
        /\ rooms[r].tables[a].isOccupied
        /\ rooms[r].tables[b].isOccupied
        /\ rooms[r].tables[a].reservedBy = rooms[r].tables[b].reservedBy
        => a = b


\* C34: a place-order handled while the room has no chef stores the order with status
\* pending and answers order-placed to the visitor with no order-received event; and an
\* order-received event is emitted only by the place-order handler, to the chef of the
\* room at that moment and for the order it is storing: no other handler emits one, and
\* the room-joined reply to a chef who joins later carries the other players and no order.
C34_OrderWithoutChefStaysUnannounced ==
    [][\A e \in emitted' :
          /\ e.ev = "order-placed"
             => \A r \in DOMAIN rooms :
                   (/\ \E items \in ItemBatches, t \in OrderTableArgs :
                          PlaceOrder(e.to, r, items, t)
                    /\ ~ \E p \in DOMAIN rooms[r].players : rooms[r].players[p] = "chef")
                   => (/\ e.oid \in DOMAIN rooms'[r].orders
                       /\ rooms'[r].orders[e.oid].status = "pending"
                       /\ ~ \E f \in emitted' : f.ev = "order-received")
          /\ e.ev = "order-received"
             => \E r \in DOMAIN rooms, c \in RelayConns :
                   /\ e.to \in DOMAIN rooms[r].players
                   /\ rooms[r].players[e.to] = "chef"
                   /\ e.oid = OrderId(now, c)
                   /\ \E items \in ItemBatches, t \in OrderTableArgs : PlaceOrder(c, r, items, t)
          /\ e.ev = "room-joined"
             => /\ "orders" \notin DOMAIN e
                /\ ~ \E f \in emitted' : f.ev = "order-received"]_vars

\* a chef has just joined a room that holds a pending order: the reply went to the chef,
\* and nothing was said about the order
C34_Witness ==
    \E r \in DOMAIN rooms, e \in emitted :
        /\ e.ev = "room-joined"
        /\ e.to \in DOMAIN rooms[r].players
        /\ rooms[r].players[e.to] = "chef"
        /\ \E o \in DOMAIN rooms[r].orders : rooms[r].orders[o].status = "pending"


\* C35: whenever updateCookingProgress completes the cooking, timeRemaining is 0 after the
\* call and the score has grown by base(dish) + floor(10 * estimatedTime), however long
\* after the estimated time the sample was taken.
C35_AutoCompletionPaysFullBonus ==
    [][chef'.completedOrders # chef.completedOrders /\ chef'.phase = "serving"
       => LET order == chef.currentOrder
              base == CASE order.dish = "Pasta Carbonara" -> 100
                        [] order.dish = "Grilled Steak" -> 150
                        [] order.dish = "Caesar Salad" -> 80
                        [] order.dish = "Tomato Soup" -> 120
                        [] order.dish = "Gourmet Burger" -> 200
                        [] order.dish = "Margherita Pizza" -> 180
                        [] OTHER -> 100
          IN  /\ \E t \in ChefTimes : updateCookingProgress(t)
              /\ chef'.timeRemaining = 0
              /\ chef'.scoreText = <<>>
              /\ chef'.score = chef.score + base + 10 * order.estimatedTime]_vars


\* C36: each order accepted by receiveOrder is scored exactly once. In every step of the
\* chef machine other than reset: the score never decreases (as a number it does not get
\* smaller, as a text it only gets longer); score and completedOrders change only
\* together, completedOrders by exactly 1 and the score by one earned amount, and only in
\* the step that takes the phase from cooking to serving; an accepted order is left only
\* by that step (cooking to serving) and then by serveOrder (serving to
\* waiting_for_order), which scores nothing; and the order at hand is not replaced while
\* it is cooked or served.
C36_EachOrderScoredOnce ==
    [][ChefReset
       \/ /\ chef'.score >= chef.score
          /\ \/ chef'.scoreText = chef.scoreText
             \/ chef'.score = chef.score
                /\ Len(chef'.scoreText) = Len(chef.scoreText) + 1
                /\ SubSeq(chef'.scoreText, 1, Len(chef.scoreText)) = chef.scoreText
          /\ chef'.completedOrders \in {chef.completedOrders, chef.completedOrders + 1}
          /\ (chef'.score # chef.score \/ chef'.scoreText # chef.scoreText)
             <=> chef'.completedOrders = chef.completedOrders + 1
          /\ chef'.completedOrders = chef.completedOrders + 1
             => chef.phase = "cooking" /\ chef'.phase = "serving"
          /\ chef.phase = "cooking" /\ chef'.phase # "cooking"
             => /\ chef'.phase = "serving"
                /\ chef'.completedOrders = chef.completedOrders + 1
                /\ chef'.currentOrder = chef.currentOrder
          /\ chef.phase = "cooking" /\ chef'.phase = "cooking"
             => chef'.currentOrder = chef.currentOrder
          /\ chef.phase = "serving"
             => \/ chef'.phase = "serving" /\ chef'.currentOrder = chef.currentOrder
                \/ chef'.phase = "waiting_for_order" /\ chef'.currentOrder = NoChefOrder
          /\ chef'.phase = "waiting_for_order" /\ chef.phase # "waiting_for_order"
             => chef.phase \in {"serving", "tutorial"}
          /\ chef'.phase = "cooking" /\ chef.phase # "cooking"
             => chef.phase = "waiting_for_order"]_vars

\* two orders have been accepted, cooked, scored and served, and the chef waits again
C36_Witness ==
    /\ chef.phase = "waiting_for_order"
    /\ chef.completedOrders = 2
    /\ chef.currentOrder = NoChefOrder
    /\ chef.score >= 200
    /\ ret.op = "receiveOrder"


\* C37: under any sequence of visitor controller operations other than reset (duplicate or
\* late table assignments and order status events included) the phase never moves to a
\* phase that comes earlier in the order entrance, reception, booking, waiter_approaching,
\* walking_to_table, at_table, seated, menu_requested, ordering, waiting, served, rating,
\* complete.
C37_PhaseNeverMovesBack ==
    [][LET listed == <<"entrance", "reception", "booking", "waiter_approaching",
                       "walking_to_table", "at_table", "seated", "menu_requested",
                       "ordering", "waiting", "served", "rating", "complete">>
           place(p) == CHOOSE i \in 1..Len(listed) : listed[i] = p
       IN  ret'.op # "reset" => place(state'.phase) >= place(state.phase)]_vars


\* C38: resetSession cancels every scheduled event: after it returns no callback is left
\* set, and until startSession or a trigger method is called again no event is triggered
\* and completedEvents stays empty.
C38_ResetCancelsEveryEvent ==
    [][/\ resetSession => timing'.scheduled = <<>>
       /\ ret.op = "resetSession" /\ ret'.op = "resetSession"
          => /\ timing'.completedEvents = {}
             /\ timing'.lastTriggered = timing.lastTriggered]_vars


\* C39: in the standalone cooking game each order drawn by startNewOrder is scored at most
\* once: once its cooking has completed, no startCooking, update, toggleIngredient or
\* serveDish call changes score or completedOrders until startNewOrder is called.
C39_GameOrderScoredOnce ==
    [][game.scored /\ ret'.op \in {"startCooking", "update", "toggleIngredient", "serveDish"}
       => game'.score = game.score /\ game'.completedOrders = game.completedOrders]_vars

====
